---- MODULE Spec2Model ----
(***************************************************************************)
(* Build orchestration core of web2apk: the build queue (concurrency       *)
(* governor) of src/utils/buildQueue.js and the front-end handlers of      *)
(* src/handlers/callbackHandler.js that admit builds through it.           *)
(*                                                                         *)
(* Time is Date.now() in milliseconds.  activeBuilds is the JavaScript Map *)
(* chatId -> { startTime, lastActivity }, kept as the sequence of its      *)
(* entries in insertion order.                                             *)
(***************************************************************************)
EXTENDS Integers, Sequences, FiniteSets, TLC

VARIABLES
    maxConcurrent,  \* BuildQueue.maxConcurrent
    activeBuilds,   \* BuildQueue.activeBuilds, entries in insertion order
    now,            \* Date.now()
    lastAcquire,    \* the most recent acquire call and what it returned
    released,       \* per id: the method that freed it since its last acquire call, if any
    arrivals,       \* the acquire calls of concurrent admission attempts, in arrival order
    sessions,       \* global.sessions: chat id -> step of its session ("none": no session)
    sessionData,    \* global.sessions: chat id -> whether session.data holds a url and an appName
    inv,            \* the running invocations of confirmBuild and handleZipUpload
    holder,         \* per chat id: the invocation whose acquire created its slot
    forced,         \* per invocation: the watchdog has called forceRelease for the slot it was granted
    reclaimed,      \* the entries removed by the watchdog tick that has just run, as they were before it
    env,            \* process.env.MAX_CONCURRENT_BUILDS
    supervisor,     \* the function that supervises the step: runCommand or runGradle
    proc,           \* the child process of a supervised step
    stdout,         \* the supervisor's accumulator of stdout text
    stderr,         \* the supervisor's accumulator of stderr text
    chunks,         \* the data events delivered so far, in arrival order
    lastOutputTime, \* runCommand: lastActivity, the time of the most recent data event
    buildStartTime, \* runGradle: buildStartTime
    timeoutCheck,   \* the supervisor's setInterval timer
    promise,        \* the promise returned by the supervised step
    onOutput,       \* the callback of the step (onOutput of runCommand, onProgress of
                    \* runGradle): whether there is one, and the texts given to it so far
    job,            \* one call of handleZipUpload from buildFromZip on: its position, the
                    \* files of the build and the error it carries
    started,        \* the supervised steps the pipeline of the job has started, in order
    orphans,        \* the children of earlier steps of the job that are still running
    names,          \* per build: the paths it has chosen for its working directory, the
                    \* log files of its runCommand calls and its output artifact
    projectDir,     \* the files below the directory in which a pipeline looks for its APK
    apkPath         \* what the search of the pipeline has returned

\* onOutput = null, the default of the parameter of runCommand
NoCallback == [supplied |-> FALSE, calls |-> << >>]

\* a callback that has not been called
Callback == [supplied |-> TRUE, calls |-> << >>]

\* onOutput(text)
Called(callback, text) == [callback EXCEPT !.calls = Append(@, text)]

\* the state of a supervised step
svars == <<supervisor, proc, stdout, stderr, chunks, lastOutputTime, buildStartTime, timeoutCheck, promise,
          onOutput>>

\* the state of one ZIP build
pvars == <<job, started, orphans, names, projectDir, apkPath>>

vars == <<maxConcurrent, activeBuilds, now, lastAcquire, released, arrivals,
          sessions, sessionData, inv, holder, forced, reclaimed, env, svars, pvars>>

\* the state that the build queue and the front end never touch
rest == <<env, svars, pvars, sessionData>>

\* the state of the front end
hvars == <<sessions, inv, holder>>

----------------------------------------------------------------------------
(* Bounds of the model *)

\* requester ids are 0 .. MaxChatId (acquire takes any number, 0 included)
MaxChatId == 2
\* each timeout is observed at its limit and MaxOverrun milliseconds past it
MaxOverrun == 1
\* number of concurrent admission attempts
MaxArrivals == 3
\* number of handler invocations in flight at once
MaxInvocations == 2

\* configured strings have at most MaxEnvLen characters
MaxEnvLen == 3
\* number of data events of a supervised step
MaxChunks == 3
\* number of distinct lines that match a pattern at the start of an output
MaxNoise == 10
\* number of distinct lines that match no pattern at the start of an output
MaxPlain == 21
\* number of chosen lines at the end of an output
MaxPicks == 2
\* the builds that run at the same time, and the runCommand calls of each that are followed
MaxBuilds == 2
MaxRuns == 2
\* the milliseconds of the clock while the paths of the builds are chosen
MaxClock == 2
\* the directories between the directory searched and the file that is looked for
MaxNesting == 7

ChatIds == 0..MaxChatId

\* the chats of the front end: two users (Telegram chat ids are never 0)
Chats == { 1, 2 }

Invocations == 1..MaxInvocations

----------------------------------------------------------------------------
(* Constants of BuildQueue *)

MAX_BUILD_TIME == 45 * 60 * 1000
INACTIVITY_TIMEOUT == 10 * 60 * 1000
\* Math.max(1, Math.min(this.maxConcurrent, 4))
MinConcurrent == 1
MaxConcurrent == 4
\* the default parameter value of forceRelease(chatId = null), updateActivity(chatId = null)
null == -1

\* JavaScript truthiness of a chatId argument: null and 0 are falsy
Truthy(chatId) == chatId # null /\ chatId # 0

Range(f) == { f[i] : i \in DOMAIN f }

Min(a, b) == IF a < b THEN a ELSE b
Max(a, b) == IF a > b THEN a ELSE b

----------------------------------------------------------------------------
(* Map operations on activeBuilds *)

MapHas(m, k) == \E i \in 1..Len(m) : m[i].chatId = k

MapIndex(m, k) == CHOOSE i \in 1..Len(m) : m[i].chatId = k

MapKeys(m) == { m[i].chatId : i \in 1..Len(m) }

MapGet(m, k) == m[MapIndex(m, k)]

\* Map.prototype.set: replaces the value of an existing key in place, appends a new key
MapSet(m, k, st, la) ==
    LET e == [chatId |-> k, startTime |-> st, lastActivity |-> la]
    IN  IF MapHas(m, k)
        THEN [i \in 1..Len(m) |-> IF m[i].chatId = k THEN e ELSE m[i]]
        ELSE Append(m, e)

\* Map.prototype.delete
MapDelete(m, k) == SelectSeq(m, LAMBDA e : e.chatId # k)

----------------------------------------------------------------------------
(* The constructor: parseInt(process.env.MAX_CONCURRENT_BUILDS) || 1, clamped to 1..4. *)
(* An environment value is a string, kept as the sequence of its characters; an unset  *)
(* variable reads as undefined, which parseInt converts to the string "undefined".     *)
(* The result of parseInt is <<>> for NaN and <<n>> for the integer n.                 *)

undefined == << "undefined" >>

Digits == << "0", "1", "2", "3", "4", "5", "6", "7", "8", "9",
            "a", "b", "c", "d", "e", "f" >>

UpperDigits == << "0", "1", "2", "3", "4", "5", "6", "7", "8", "9",
                 "A", "B", "C", "D", "E", "F" >>

\* ch is a digit of the radix (10 or 16)
IsDigitOf(ch, radix) == \E d \in 1..radix : Digits[d] = ch \/ UpperDigits[d] = ch

IsDigit(ch) == IsDigitOf(ch, 10)

DigitValue(ch) == (CHOOSE d \in 1..16 : Digits[d] = ch \/ UpperDigits[d] = ch) - 1

\* parseInt skips leading white space
RECURSIVE TrimStart(_)
TrimStart(s) ==
    IF s # << >> /\ Head(s) = " " THEN TrimStart(Tail(s)) ELSE s

\* the number of leading digits of s in the radix
RECURSIVE DigitRun(_, _)
DigitRun(s, radix) ==
    IF s # << >> /\ IsDigitOf(Head(s), radix) THEN 1 + DigitRun(Tail(s), radix) ELSE 0

\* the number written by a sequence of digits in the radix
RECURSIVE RadixValue(_, _)
RadixValue(ds, radix) ==
    IF ds = << >> THEN 0
    ELSE radix * RadixValue(SubSeq(ds, 1, Len(ds) - 1), radix) + DigitValue(ds[Len(ds)])

DecimalValue(ds) == RadixValue(ds, 10)

\* parseInt(string) without a radix argument: white space, an optional sign,
\* an optional 0x or 0X that selects radix 16, then the longest run of digits
\* of the radix; NaN when that run is empty
ParseInt(str) ==
    LET s == TrimStart(str)
        signed == s # << >> /\ Head(s) \in { "+", "-" }
        t == IF signed THEN Tail(s) ELSE s
        hex == Len(t) >= 2 /\ t[1] = "0" /\ t[2] \in { "x", "X" }
        radix == IF hex THEN 16 ELSE 10
        u == IF hex THEN SubSeq(t, 3, Len(t)) ELSE t
        n == DigitRun(u, radix)
        v == RadixValue(SubSeq(u, 1, n), radix)
    IN  IF n = 0 THEN << >>
        ELSE IF signed /\ Head(s) = "-" THEN << 0 - v >> ELSE << v >>

\* parsed || 1: NaN and 0 are falsy
ParsedOrDefault(parsed) == IF parsed = << >> \/ parsed[1] = 0 THEN 1 ELSE parsed[1]

\* faulty variant of the clamp: no upper limit
Clamp_NoUpperLimit(n) == Max(MinConcurrent, n)

Clamp(n) == Max(MinConcurrent, Min(n, MaxConcurrent))

\* this.maxConcurrent after the constructor
Constructor(value) == Clamp(ParsedOrDefault(ParseInt(value)))

\* the configurations explored for the queue: variable unset, and "2"
ConfiguredBuilds == { undefined, << "2" >> }

----------------------------------------------------------------------------
(* The methods of BuildQueue as functions of the state *)

\* faulty variants of acquire's checks, which the properties must reject
AcquireGranted_NoCapacityCheck(m, cap, chatId) == ~MapHas(m, chatId)

AcquireGranted_NoDuplicateCheck(m, cap, chatId) == Len(m) < cap

AcquireGranted_OffByOne(m, cap, chatId) == ~MapHas(m, chatId) /\ Len(m) <= cap

\* acquire: the value returned
AcquireGranted(m, cap, chatId) ==
    IF MapHas(m, chatId) THEN FALSE
    ELSE IF Len(m) >= cap THEN FALSE
    ELSE TRUE

\* faulty variants of acquire's insertion
AcquireMap_StartAtZero(m, cap, chatId, t) ==
    IF AcquireGranted(m, cap, chatId) THEN MapSet(m, chatId, 0, t) ELSE m

AcquireMap_InsertsWhenFull(m, cap, chatId, t) ==
    IF MapHas(m, chatId) THEN m ELSE MapSet(m, chatId, t, t)

\* acquire: activeBuilds afterwards
AcquireMap(m, cap, chatId, t) ==
    IF AcquireGranted(m, cap, chatId) THEN MapSet(m, chatId, t, t) ELSE m

\* faulty variant of release: drops the oldest entry
ReleaseMap_DeletesOldest(m, chatId) ==
    IF ~MapHas(m, chatId) THEN m ELSE Tail(m)

\* release: activeBuilds afterwards
ReleaseMap(m, chatId) ==
    IF ~MapHas(m, chatId) THEN m ELSE MapDelete(m, chatId)

\* faulty variant of forceRelease: the slot of chatId stays
ForceReleaseMap_KeepsSlot(m, chatId) ==
    IF Truthy(chatId) THEN m ELSE << >>

\* forceRelease: activeBuilds afterwards
ForceReleaseMap(m, chatId) ==
    IF Truthy(chatId)
    THEN IF MapHas(m, chatId) THEN MapDelete(m, chatId) ELSE m
    ELSE << >>

\* updateActivity: activeBuilds afterwards
UpdateActivityMap(m, chatId, t) ==
    IF Truthy(chatId) /\ MapHas(m, chatId)
    THEN [i \in 1..Len(m) |-> IF m[i].chatId = chatId THEN [m[i] EXCEPT !.lastActivity = t] ELSE m[i]]
    ELSE [i \in 1..Len(m) |-> [m[i] EXCEPT !.lastActivity = t]]

\* build.lastActivity || build.startTime
LastSeen(build) == IF build.lastActivity # 0 THEN build.lastActivity ELSE build.startTime

\* faulty variants of the watchdog's test: one of the two limits is not looked at
IsStuck_InactivityOnly(build, t) == t - LastSeen(build) > INACTIVITY_TIMEOUT

IsStuck_AbsoluteOnly(build, t) == t - build.startTime > MAX_BUILD_TIME

\* checkStuckBuilds: does the loop push this entry on toRelease
IsStuck(build, t) ==
    IF t - build.startTime > MAX_BUILD_TIME THEN TRUE
    ELSE t - LastSeen(build) > INACTIVITY_TIMEOUT

\* checkStuckBuilds: toRelease, in iteration order
ToRelease(m, t) ==
    LET stuck == SelectSeq(m, LAMBDA e : IsStuck(e, t))
    IN  [i \in 1..Len(stuck) |-> stuck[i].chatId]

RECURSIVE ForceReleaseEach(_, _)
ForceReleaseEach(m, ids) ==
    IF ids = << >> THEN m
    ELSE ForceReleaseEach(ForceReleaseMap(m, Head(ids)), Tail(ids))

\* checkStuckBuilds: activeBuilds afterwards
CheckStuckBuildsMap(m, t) ==
    IF Len(m) = 0 THEN m ELSE ForceReleaseEach(m, ToRelease(m, t))

---------------------------------------------------------------------------------------------------------------------------------------------------
(* History kept for the properties *)

\* lastAcquire.after: what released[chatId] was when acquire(chatId) was called
NoCall == [chatId |-> null, ret |-> FALSE, after |-> "no"]

\* the slot of k is the same in m1 and m2 (or absent from both)
SameSlot(m1, m2, k) ==
    /\ MapHas(m1, k) <=> MapHas(m2, k)
    /\ MapHas(m1, k) => MapGet(m1, k) = MapGet(m2, k)

NoDuplicateKeys(m) == \A i, j \in 1..Len(m) : m[i].chatId = m[j].chatId => i = j

\* holder is kept for the chats that have a slot only
Held(h, m) == [c \in Chats |-> IF MapHas(m, c) THEN h[c] ELSE 0]

\* an invocation slot not in use
Idle == [kind |-> "none", chat |-> null, pc |-> "idle", admitted |-> FALSE,
         ended |-> FALSE, releaseCalled |-> FALSE, progressAt |-> null]

\* an invocation that has returned or thrown: its frame is gone, what is kept
\* is whether it was admitted, whether its pipeline returned a result, and
\* whether it called release
Exited(r, releaseCalled) ==
    [Idle EXCEPT !.pc = "done", !.admitted = r.admitted, !.ended = r.ended,
                 !.releaseCalled = releaseCalled]

\* no invocation has just exited.  A handler's exit and the disposal of its
\* frame are one step of the program; the state in between shows the exit to
\* the properties, and nothing else happens in it.
Disposed == \A q \in Invocations : inv[q].pc # "done"

----------------------------------------------------------------------------
(* Actions *)

\* no supervised step has been started
NoStep ==
    /\ supervisor = "none"
    /\ proc = [state |-> "none", code |-> null, signal |-> "none"]
    /\ stdout = << >>
    /\ stderr = << >>
    /\ chunks = << >>
    /\ lastOutputTime = 0
    /\ buildStartTime = 0
    /\ timeoutCheck = "none"
    /\ promise = [state |-> "none", value |-> << >>, error |-> "none"]
    /\ onOutput = NoCallback

\* findApk has not been called
Unsearched == [state |-> "none", depth |-> 0, path |-> << >>]

\* no ZIP build has reached buildFromZip
NoJobRecord ==
    [pc |-> "none", type |-> "none", tempDir |-> "absent", zipPath |-> "absent",
     apkPath |-> "absent", keepAliveInterval |-> "none", error |-> "none",
     result |-> "none", reported |-> "none", released |-> FALSE]

NoJob ==
    /\ job = NoJobRecord
    /\ started = << >>
    /\ orphans = 0
    /\ names = << >>
    /\ projectDir = << >>
    /\ apkPath = Unsearched

\* session.data of a new session (url: null, appName: null in the URL flow, no
\* such fields in the ZIP flow), and of a chat without a session
NoData == [url |-> FALSE, appName |-> FALSE]

\* the queue and the front end, before the first call
InitQueue ==
    /\ activeBuilds = << >>
    /\ now = 0
    /\ lastAcquire = NoCall
    /\ released = [c \in ChatIds |-> "no"]
    /\ arrivals = << >>
    /\ sessions = [c \in Chats |-> "none"]
    /\ sessionData = [c \in Chats |-> NoData]
    /\ inv = [p \in Invocations |-> Idle]
    /\ holder = [c \in Chats |-> 0]
    /\ forced = [p \in Invocations |-> FALSE]
    /\ reclaimed = { }

Init ==
    /\ env \in ConfiguredBuilds
    /\ maxConcurrent = Constructor(env)
    /\ InitQueue
    /\ NoStep
    /\ NoJob

----------------------------------------------------------------------------
(* The configuration: the module is loaded with MAX_CONCURRENT_BUILDS unset *)
(* or set to a string, and `new BuildQueue()` runs the constructor.         *)

\* the characters of the configured strings
Chars == { "0", "1", "3", "4", "5", "-", "+", " ", ".", "a", "x" }

Strings(n) == UNION { [1..k -> Chars] : k \in 0..n }

EnvValues == { undefined } \cup Strings(MaxEnvLen)

\* before the module is loaded: the queue does not exist yet
InitConfig ==
    /\ env \in EnvValues
    /\ maxConcurrent = null
    /\ InitQueue
    /\ NoStep
    /\ NoJob

\* new BuildQueue()
Construct ==
    /\ maxConcurrent = null
    /\ maxConcurrent' = Constructor(env)
    /\ UNCHANGED <<rest, forced, reclaimed, activeBuilds, now, lastAcquire, released, arrivals,
                   sessions, inv, holder>>

NextConfig == Construct

SpecConfig == InitConfig /\ [][NextConfig]_vars

----------------------------------------------------------------------------
\* a call of acquire(chatId)
AcquireCall(chatId) ==
    LET ret == AcquireGranted(activeBuilds, maxConcurrent, chatId)
    IN  /\ activeBuilds' = AcquireMap(activeBuilds, maxConcurrent, chatId, now)
        /\ lastAcquire' = [chatId |-> chatId, ret |-> ret, after |-> released[chatId]]
        /\ released' = [released EXCEPT ![chatId] = "no"]
        /\ reclaimed' = { }
        /\ UNCHANGED <<rest, forced, maxConcurrent, now>>
        /\ UNCHANGED <<sessions, inv>>
    /\ holder' = Held(holder, activeBuilds')

Acquire(chatId) ==
    /\ AcquireCall(chatId)
    /\ UNCHANGED arrivals

Release(chatId) ==
    /\ activeBuilds' = ReleaseMap(activeBuilds, chatId)
    /\ released' = [released EXCEPT ![chatId] = "release"]
    /\ UNCHANGED <<rest, forced, reclaimed, maxConcurrent, now, lastAcquire, arrivals>>
    /\ UNCHANGED <<sessions, inv>>
    /\ holder' = Held(holder, activeBuilds')

ForceRelease(chatId) ==
    /\ activeBuilds' = ForceReleaseMap(activeBuilds, chatId)
    /\ released' = IF chatId = null THEN released
                   ELSE [released EXCEPT ![chatId] = "forceRelease"]
    /\ UNCHANGED <<rest, forced, reclaimed, maxConcurrent, now, lastAcquire, arrivals>>
    /\ UNCHANGED <<sessions, inv>>
    /\ holder' = Held(holder, activeBuilds')

UpdateActivity(chatId) ==
    /\ activeBuilds' = UpdateActivityMap(activeBuilds, chatId, now)
    /\ reclaimed' = { }
    /\ UNCHANGED <<rest, forced, maxConcurrent, now, lastAcquire, released, arrivals>>
    /\ UNCHANGED <<sessions, inv>>
    /\ holder' = Held(holder, activeBuilds')

\* checkStuckBuilds() called now removes the slot granted to invocation p
LosesSlot(p) ==
    /\ inv[p].admitted
    /\ \E c \in Chats : /\ holder[c] = p
                       /\ MapHas(activeBuilds, c)
                       /\ ~MapHas(CheckStuckBuildsMap(activeBuilds, now), c)

\* checkStuckBuilds(): what it does to the queue
CheckStuckBuildsCall ==
    /\ Disposed
    /\ activeBuilds' = CheckStuckBuildsMap(activeBuilds, now)
    /\ UNCHANGED <<rest, maxConcurrent, now, lastAcquire, arrivals>>
    /\ UNCHANGED <<sessions, inv>>
    /\ holder' = Held(holder, activeBuilds')

\* the ids that checkStuckBuilds passes to forceRelease are recorded as freed by it
ForceReleasedByWatchdog ==
    released' = [c \in ChatIds |->
                   IF Len(activeBuilds) > 0 /\ c \in Range(ToRelease(activeBuilds, now))
                   THEN "forceRelease" ELSE released[c]]

\* one firing of the watchdog interval, among the calls of the queue
CheckStuckBuilds ==
    /\ CheckStuckBuildsCall
    /\ ForceReleasedByWatchdog
    /\ UNCHANGED <<reclaimed, forced>>

\* one firing of the watchdog interval, the entries it removes being recorded
Tick ==
    /\ CheckStuckBuildsCall
    /\ ForceReleasedByWatchdog
    /\ reclaimed' = { activeBuilds[i] : i \in { j \in 1..Len(activeBuilds) :
                                                 ~MapHas(activeBuilds', activeBuilds[j].chatId) } }
    /\ UNCHANGED forced

\* faulty variant of the watchdog: a reclamation also ends the pipeline of the build
Reclaim_StopsPipelines ==
    /\ Disposed
    /\ activeBuilds' = CheckStuckBuildsMap(activeBuilds, now)
    /\ inv' = [p \in Invocations |-> IF LosesSlot(p) THEN Exited(inv[p], FALSE) ELSE inv[p]]
    /\ UNCHANGED <<rest, released, reclaimed, forced, maxConcurrent, now, lastAcquire, arrivals, sessions>>
    /\ holder' = Held(holder, activeBuilds')

\* one firing of the watchdog interval, while handlers of the front end run
Reclaim ==
    /\ CheckStuckBuildsCall
    /\ UNCHANGED <<released, reclaimed, forced>>

\* the same firing, the invocations whose slot it removes being recorded
ReclaimRecorded ==
    /\ CheckStuckBuildsCall
    /\ forced' = [p \in Invocations |-> forced[p] \/ LosesSlot(p)]
    /\ UNCHANGED <<released, reclaimed>>

\* the instants at which the watchdog is observed: the start, and each timeout
\* limit met exactly and overrun
Instants ==
    { 0, INACTIVITY_TIMEOUT, INACTIVITY_TIMEOUT + MaxOverrun,
      MAX_BUILD_TIME, MAX_BUILD_TIME + MaxOverrun }

\* the instants at which the calls of the queue and of the front end are
\* interleaved: the start, and the inactivity timeout overrun
Overruns == { INACTIVITY_TIMEOUT + MaxOverrun }

\* the clock advances between two calls
AdvanceTime(t) ==
    /\ Disposed
    /\ t > now
    /\ now' = t
    /\ reclaimed' = { }
    /\ UNCHANGED <<rest, forced, maxConcurrent, activeBuilds, lastAcquire, released, arrivals>>
    /\ UNCHANGED <<sessions, inv>>
    /\ holder' = Held(holder, activeBuilds')

Next ==
    \/ \E chatId \in ChatIds : Acquire(chatId)
    \/ \E chatId \in ChatIds : Release(chatId)
    \/ \E chatId \in ChatIds \cup {null} : ForceRelease(chatId)
    \/ \E chatId \in ChatIds \cup {null} : UpdateActivity(chatId)
    \/ CheckStuckBuilds
    \/ \E t \in Overruns : AdvanceTime(t)

Spec == Init /\ [][Next]_vars

\* the watchdog observed at the timeout limits
NextWatchdog ==
    \/ \E chatId \in ChatIds : Acquire(chatId)
    \/ \E chatId \in ChatIds \cup {null} : UpdateActivity(chatId)
    \/ Tick
    \/ \E t \in Instants : AdvanceTime(t)

SpecWatchdog == Init /\ [][NextWatchdog]_vars

----------------------------------------------------------------------------
(* Concurrent admission attempts: acquire calls arriving one after another *)
(* on a freshly constructed queue, nothing being released in between.      *)

Arrive(chatId) ==
    /\ Len(arrivals) < MaxArrivals
    /\ AcquireCall(chatId)
    /\ arrivals' = Append(arrivals, lastAcquire')

NextArrivals ==
    \/ \E chatId \in ChatIds : Arrive(chatId)
    \/ \E chatId \in ChatIds \cup {null} : UpdateActivity(chatId)
    \/ \E t \in Instants : AdvanceTime(t)

SpecArrivals == Init /\ [][NextArrivals]_vars

----------------------------------------------------------------------------
(* The front end: sessions, and the handlers confirmBuild (URL builds) and  *)
(* handleZipUpload (ZIP builds).  A handler is an async function: each      *)
(* action below runs it from one await to the next.  A call of the bot API  *)
(* may reject, which throws at the await.                                   *)
(*   pc: "refused"   awaiting the "server busy" message                     *)
(*       "starting"  slot granted, awaiting the first status message        *)
(*       "building"  awaiting buildApk / buildFromZip                       *)
(*       "reporting" build succeeded, awaiting the delivery of the result   *)
(*       "catch"     awaiting the error message sent by the catch block     *)
(*       "finally"   confirmBuild's finally block, awaiting the file removals *)
(*       "done"      the handler has returned or thrown                     *)

\* startCreateApk: a new session of the URL flow
StartCreateApk(c) ==
    /\ Disposed
    /\ sessions' = [sessions EXCEPT ![c] = "url"]
    /\ sessionData' = [sessionData EXCEPT ![c] = NoData]
    /\ UNCHANGED <<env, svars, pvars, forced, reclaimed, maxConcurrent, activeBuilds, now, lastAcquire, released, arrivals, inv, holder>>

\* selectZipType: a new session of the ZIP flow
SelectZipType(c) ==
    /\ Disposed
    /\ sessions' = [sessions EXCEPT ![c] = "zip_buildtype"]
    /\ sessionData' = [sessionData EXCEPT ![c] = NoData]
    /\ UNCHANGED <<env, svars, pvars, forced, reclaimed, maxConcurrent, activeBuilds, now, lastAcquire, released, arrivals, inv, holder>>

\* selectZipBuildType: any existing session moves to the upload step
SelectZipBuildType(c) ==
    /\ Disposed
    /\ sessions[c] # "none"
    /\ sessions' = [sessions EXCEPT ![c] = "zip_upload"]
    /\ UNCHANGED <<rest, forced, reclaimed, maxConcurrent, activeBuilds, now, lastAcquire, released, arrivals, inv, holder>>

\* the handler asks for a slot: buildQueue.acquire(chatId)
HandlerAcquire(p, c, kind) ==
    LET ok == AcquireGranted(activeBuilds, maxConcurrent, c)
    IN  /\ inv[p].pc = "idle"
        /\ \A q \in 1..(p - 1) : inv[q].pc # "idle"
        /\ activeBuilds' = AcquireMap(activeBuilds, maxConcurrent, c, now)
        /\ inv' = [inv EXCEPT ![p] =
                     [kind |-> kind, chat |-> c, pc |-> IF ok THEN "starting" ELSE "refused",
                      admitted |-> ok, ended |-> FALSE, releaseCalled |-> FALSE,
                      progressAt |-> null]]
        /\ holder' = IF ok THEN [holder EXCEPT ![c] = p] ELSE holder
        /\ forced' = [forced EXCEPT ![p] = FALSE]
        /\ UNCHANGED <<rest, reclaimed, maxConcurrent, now, lastAcquire, released, arrivals, sessions>>

\* confirmBuild up to its first await
ConfirmBuild(p, c) ==
    /\ Disposed
    /\ sessions[c] # "none"
    /\ HandlerAcquire(p, c, "url")

\* handleZipUpload up to its first await
HandleZipUpload(p, c) ==
    /\ Disposed
    /\ sessions[c] = "zip_upload"
    /\ HandlerAcquire(p, c, "zip")

\* the refused handler after its "server busy" message
BusyReported(p, throws) ==
    /\ Disposed
    /\ inv[p].pc = "refused"
    /\ inv' = [inv EXCEPT ![p] = Exited(inv[p], FALSE)]
    /\ sessions' = IF throws THEN sessions ELSE [sessions EXCEPT ![inv[p].chat] = "none"]
    /\ sessionData' = IF throws THEN sessionData ELSE [sessionData EXCEPT ![inv[p].chat] = NoData]
    /\ UNCHANGED <<env, svars, pvars, forced, reclaimed, maxConcurrent, activeBuilds, now, lastAcquire, released, arrivals, holder>>

\* the admitted handler after its first status message: the pipeline is called,
\* and reports its first progress before its first await (progressAt: the time
\* of the latest call of onProgress by the running pipeline)
StartReported(p, throws) ==
    /\ Disposed
    /\ inv[p].pc = "starting"
    /\ inv' = [inv EXCEPT ![p] = IF throws THEN Exited(inv[p], FALSE)
                                 ELSE [inv[p] EXCEPT !.pc = "building", !.progressAt = now]]
    /\ activeBuilds' = IF ~throws /\ inv[p].kind = "url"
                       THEN UpdateActivityMap(activeBuilds, null, now)
                       ELSE activeBuilds
    /\ UNCHANGED <<rest, forced, reclaimed, maxConcurrent, now, lastAcquire, released, arrivals, sessions, holder>>

\* the pipeline invokes onProgress
Progress(p) ==
    /\ Disposed
    /\ inv[p].pc = "building"
    /\ activeBuilds' = IF inv[p].kind = "url"
                       THEN UpdateActivityMap(activeBuilds, null, now)
                       ELSE activeBuilds
    /\ inv' = [inv EXCEPT ![p].progressAt = now]
    /\ UNCHANGED <<rest, forced, reclaimed, maxConcurrent, now, lastAcquire, released, arrivals,
                   sessions, holder>>

\* the pipeline returns its result; a failure is thrown into the catch block
BuildEnds(p, success) ==
    /\ Disposed
    /\ inv[p].pc = "building"
    /\ inv' = [inv EXCEPT ![p].pc = IF success THEN "reporting" ELSE "catch",
                          ![p].ended = TRUE, ![p].progressAt = null]
    /\ UNCHANGED <<rest, forced, reclaimed, maxConcurrent, activeBuilds, now, lastAcquire, released, arrivals,
                   sessions, holder>>

\* the lines after the try statement of handleZipUpload
ZipEpilogue(p) ==
    /\ activeBuilds' = ReleaseMap(activeBuilds, inv[p].chat)
    /\ sessions' = [sessions EXCEPT ![inv[p].chat] = "none"]
    /\ sessionData' = [sessionData EXCEPT ![inv[p].chat] = NoData]

\* the awaits that deliver a successful result have completed, or one has thrown
ResultReported(p, throws, oversized) ==
    /\ Disposed
    /\ inv[p].pc = "reporting"
    /\ inv[p].kind = "url" => ~oversized
    /\ IF throws
       THEN /\ inv' = [inv EXCEPT ![p].pc = "catch"]
            /\ UNCHANGED <<activeBuilds, sessions, sessionData>>
       ELSE IF inv[p].kind = "url"
       THEN /\ inv' = [inv EXCEPT ![p].pc = "finally"]
            /\ UNCHANGED <<activeBuilds, sessions, sessionData>>
       ELSE IF oversized
       THEN /\ inv' = [inv EXCEPT ![p] = Exited(inv[p], FALSE)]
            /\ UNCHANGED <<activeBuilds, sessions, sessionData>>
       ELSE /\ inv' = [inv EXCEPT ![p] = Exited(inv[p], TRUE)]
            /\ ZipEpilogue(p)
    /\ holder' = Held(holder, activeBuilds')
    /\ UNCHANGED <<env, svars, pvars, forced, reclaimed, maxConcurrent, now, lastAcquire, released, arrivals>>

\* the catch block's error message has been sent, or sending it has thrown
ErrorReported(p, throws) ==
    /\ Disposed
    /\ inv[p].pc = "catch"
    /\ IF inv[p].kind = "url"
       THEN /\ inv' = [inv EXCEPT ![p].pc = "finally"]
            /\ UNCHANGED <<activeBuilds, sessions, sessionData>>
       ELSE IF throws
       THEN /\ inv' = [inv EXCEPT ![p] = Exited(inv[p], FALSE)]
            /\ UNCHANGED <<activeBuilds, sessions, sessionData>>
       ELSE /\ inv' = [inv EXCEPT ![p] = Exited(inv[p], TRUE)]
            /\ ZipEpilogue(p)
    /\ holder' = Held(holder, activeBuilds')
    /\ UNCHANGED <<env, svars, pvars, forced, reclaimed, maxConcurrent, now, lastAcquire, released, arrivals>>

\* the end of confirmBuild's finally block
Finally(p) ==
    /\ Disposed
    /\ inv[p].pc = "finally"
    /\ activeBuilds' = ReleaseMap(activeBuilds, inv[p].chat)
    /\ sessions' = [sessions EXCEPT ![inv[p].chat] = "none"]
    /\ sessionData' = [sessionData EXCEPT ![inv[p].chat] = NoData]
    /\ inv' = [inv EXCEPT ![p] = Exited(inv[p], TRUE)]
    /\ holder' = Held(holder, activeBuilds')
    /\ UNCHANGED <<env, svars, pvars, forced, reclaimed, maxConcurrent, now, lastAcquire, released, arrivals>>

\* the handler's promise has settled and nothing refers to the invocation any more
Return(p) ==
    /\ inv[p].pc = "done"
    /\ inv' = [inv EXCEPT ![p] = Idle]
    /\ forced' = [forced EXCEPT ![p] = FALSE]
    /\ UNCHANGED <<rest, reclaimed, maxConcurrent, activeBuilds, now, lastAcquire, released, arrivals,
                   sessions, holder>>

\* the steps of the handlers, of the sessions and of the clock
NextFrontEnd ==
    \/ \E c \in Chats : StartCreateApk(c)
    \/ \E c \in Chats : SelectZipType(c)
    \/ \E c \in Chats : SelectZipBuildType(c)
    \/ \E p \in Invocations, c \in Chats : ConfirmBuild(p, c)
    \/ \E p \in Invocations, c \in Chats : HandleZipUpload(p, c)
    \/ \E p \in Invocations, throws \in BOOLEAN : BusyReported(p, throws)
    \/ \E p \in Invocations, throws \in BOOLEAN : StartReported(p, throws)
    \/ \E p \in Invocations : Progress(p)
    \/ \E p \in Invocations, success \in BOOLEAN : BuildEnds(p, success)
    \/ \E p \in Invocations, throws \in BOOLEAN, oversized \in BOOLEAN :
          ResultReported(p, throws, oversized)
    \/ \E p \in Invocations, throws \in BOOLEAN : ErrorReported(p, throws)
    \/ \E p \in Invocations : Finally(p)
    \/ \E p \in Invocations : Return(p)
    \/ \E t \in Overruns : AdvanceTime(t)

NextHandlers ==
    \/ NextFrontEnd
    \/ Reclaim

\* handleMessage at the step 'url': handleUrlInput stores a valid URL and moves
\* to the step 'name'; an invalid one is answered and changes nothing
HandleUrlInput(c, valid) ==
    /\ Disposed
    /\ sessions[c] = "url"
    /\ sessions' = IF valid THEN [sessions EXCEPT ![c] = "name"] ELSE sessions
    /\ sessionData' = IF valid THEN [sessionData EXCEPT ![c].url = TRUE] ELSE sessionData
    /\ UNCHANGED <<env, svars, pvars, forced, reclaimed, maxConcurrent, activeBuilds, now,
                   lastAcquire, released, arrivals, inv, holder>>

\* handleMessage at the step 'name': handleNameInput stores a name of 2 to 30
\* characters and moves to the step 'icon'
HandleNameInput(c, valid) ==
    /\ Disposed
    /\ sessions[c] = "name"
    /\ sessions' = IF valid THEN [sessions EXCEPT ![c] = "icon"] ELSE sessions
    /\ sessionData' = IF valid THEN [sessionData EXCEPT ![c].appName = TRUE] ELSE sessionData
    /\ UNCHANGED <<env, svars, pvars, forced, reclaimed, maxConcurrent, activeBuilds, now,
                   lastAcquire, released, arrivals, inv, holder>>

\* handleMessage at the step 'icon' with a photo: handleIconUpload stores the
\* icon and moves to the step 'confirm', unless the download throws
HandleIconUpload(c, throws) ==
    /\ Disposed
    /\ sessions[c] = "icon"
    /\ sessions' = IF throws THEN sessions ELSE [sessions EXCEPT ![c] = "confirm"]
    /\ UNCHANGED <<rest, forced, reclaimed, maxConcurrent, activeBuilds, now,
                   lastAcquire, released, arrivals, inv, holder>>

\* skipIcon: any existing session moves to the step 'confirm'
SkipIcon(c) ==
    /\ Disposed
    /\ sessions[c] # "none"
    /\ sessions' = [sessions EXCEPT ![c] = "confirm"]
    /\ UNCHANGED <<rest, forced, reclaimed, maxConcurrent, activeBuilds, now,
                   lastAcquire, released, arrivals, inv, holder>>

\* cancelProcess: the session is deleted
CancelProcess(c) ==
    /\ Disposed
    /\ sessions' = [sessions EXCEPT ![c] = "none"]
    /\ sessionData' = [sessionData EXCEPT ![c] = NoData]
    /\ UNCHANGED <<env, svars, pvars, forced, reclaimed, maxConcurrent, activeBuilds, now,
                   lastAcquire, released, arrivals, inv, holder>>

\* the buttons and messages of the URL flow and of the ZIP flow, pressed and
\* sent in any order, and the handlers they start
NextFlow ==
    \/ NextFrontEnd
    \/ \E c \in Chats, valid \in BOOLEAN : HandleUrlInput(c, valid)
    \/ \E c \in Chats, valid \in BOOLEAN : HandleNameInput(c, valid)
    \/ \E c \in Chats, throws \in BOOLEAN : HandleIconUpload(c, throws)
    \/ \E c \in Chats : SkipIcon(c)
    \/ \E c \in Chats : CancelProcess(c)

\* the front end runs on the default configuration, MAX_CONCURRENT_BUILDS unset
InitHandlers ==
    /\ Init
    /\ env = undefined

SpecHandlers == InitHandlers /\ [][NextHandlers]_vars

SpecFlow == InitHandlers /\ [][NextFlow]_vars

\* the front end on a queue configured with MAX_CONCURRENT_BUILDS=2: the builds of
\* two requesters hold slots at the same time
InitConcurrent ==
    /\ Init
    /\ env = << "2" >>

SpecConcurrent == InitConcurrent /\ [][NextHandlers]_vars

\* the front end, with a record of which admissions the watchdog has force-released
NextReleases ==
    \/ NextFrontEnd
    \/ ReclaimRecorded

SpecReleases == InitHandlers /\ [][NextReleases]_vars

\* the pipeline of invocation p has been called and has not returned
Running(p) == inv[p].pc = "building"

\* the slot created by the acquire of invocation p is still in activeBuilds
OwnsSlot(p) ==
    /\ inv[p].admitted
    /\ MapHas(activeBuilds, inv[p].chat)
    /\ holder[inv[p].chat] = p

----------------------------------------------------------------------------
(* Text.  A JavaScript string is the sequence of its characters, each a      *)
(* string of length one; the operators below compute what the String and    *)
(* RegExp methods used by runCommand compute.                               *)

\* the lower-case letter of every upper-case letter
LowerCase ==
    "A" :> "a" @@ "B" :> "b" @@ "C" :> "c" @@ "D" :> "d" @@ "E" :> "e" @@ "F" :> "f" @@ "G" :> "g" @@ "H" :> "h" @@ "I" :> "i" @@ "J" :> "j" @@ "K" :> "k" @@ "L" :> "l" @@ "M" :> "m" @@ "N" :> "n" @@ "O" :> "o" @@ "P" :> "p" @@ "Q" :> "q" @@ "R" :> "r" @@ "S" :> "s" @@ "T" :> "t" @@ "U" :> "u" @@ "V" :> "v" @@ "W" :> "w" @@ "X" :> "x" @@ "Y" :> "y" @@ "Z" :> "z"

\* one character of String.prototype.toLowerCase(), the folding of the i flag
ToLowerCase(ch) == IF ch \in DOMAIN LowerCase THEN LowerCase[ch] ELSE ch

\* the characters removed by String.prototype.trim()
WhiteSpace == { " ", "\t", "\n", "\r" }

\* the characters that . does not match and before which $ matches with the
\* m flag
LineTerminators == { "\n", "\r" }

\* text.substring(0, n)
Substring(text, n) == SubSeq(text, 1, Min(n, Len(text)))

\* the needle stands in the text at position i; with ignoreCase the needle is
\* given in lower case and the text is folded
StartsAt(text, i, needle, ignoreCase) ==
    /\ i + Len(needle) - 1 <= Len(text)
    /\ \A k \in 1..Len(needle) :
          (IF ignoreCase THEN ToLowerCase(text[i + k - 1]) ELSE text[i + k - 1]) = needle[k]

\* the positions at and after from where the needle stands in the text
Occurrences(text, from, needle, ignoreCase) ==
    { i \in from..Len(text) : StartsAt(text, i, needle, ignoreCase) }

\* text.includes(needle)
Includes(text, needle) == Occurrences(text, 1, needle, FALSE) # { }

\* the least element of a non-empty set of numbers
Least(S) == CHOOSE i \in S : \A j \in S : i <= j

\* the elements of a finite set of numbers in increasing order
Ascending(S) ==
    [k \in 1..Cardinality(S) |-> CHOOSE i \in S : Cardinality({ j \in S : j <= i }) = k]

\* the pieces of the text between the characters of the set separators
SplitAt(text, separators) ==
    LET at == Ascending({ i \in 1..Len(text) : text[i] \in separators })
        n == Len(at)
    IN  [k \in 1..(n + 1) |->
            SubSeq(text, IF k = 1 THEN 1 ELSE at[k - 1] + 1,
                         IF k = n + 1 THEN Len(text) ELSE at[k] - 1)]

\* text.split('\n')
Split(text) == SplitAt(text, { "\n" })

\* !l.trim(): the line is empty or white space only
IsBlank(line) == \A i \in 1..Len(line) : line[i] \in WhiteSpace

\* lines.filter(l => l.trim())
NonBlank(lines) == SelectSeq(lines, LAMBDA l : ~ IsBlank(l))

\* faulty variant of slice(-n): the first n elements
LastN_FromStart(s, n) == SubSeq(s, 1, Min(n, Len(s)))

\* array.slice(-n)
LastN(s, n) == SubSeq(s, Max(1, Len(s) - n + 1), Len(s))

\* array.slice(0, n)
FirstN(s, n) == SubSeq(s, 1, Min(n, Len(s)))

RECURSIVE Join(_, _)
\* array.join(separator)
Join(lines, separator) ==
    IF lines = << >> THEN << >>
    ELSE IF Len(lines) = 1 THEN lines[1]
    ELSE Join(SubSeq(lines, 1, Len(lines) - 1), separator) \o separator \o lines[Len(lines)]

RECURSIVE Concat(_)
\* the concatenation of a sequence of sequences
Concat(ss) == IF ss = << >> THEN << >> ELSE Head(ss) \o Concat(Tail(ss))

\* [...new Set(array)]: the first occurrence of every element, in order
Distinct(s) ==
    LET first == Ascending({ i \in 1..Len(s) : \A j \in 1..(i - 1) : s[j] # s[i] })
    IN  [k \in 1..Len(first) |-> s[first[k]]]

\* text.match(/needle.*$/gm), with the i flag if ignoreCase: in every line,
\* the text from the first occurrence of the needle to the end of the line
\* (null and the empty list of matches are the same to the caller)
MatchToEndOfLine(text, needle, ignoreCase) ==
    LET hit == SelectSeq(SplitAt(text, LineTerminators),
                         LAMBDA l : Occurrences(l, 1, needle, ignoreCase) # { })
    IN  [k \in 1..Len(hit) |->
            SubSeq(hit[k], Least(Occurrences(hit[k], 1, needle, ignoreCase)), Len(hit[k]))]

FAILURE_ == << "F", "A", "I", "L", "U", "R", "E", ":" >>
error_ == << "e", "r", "r", "o", "r", ":" >>
Error_ == << "E", "r", "r", "o", "r", ":" >>
Exception_ == << "E", "x", "c", "e", "p", "t", "i", "o", "n", ":" >>
WhatWentWrong_ == << "*", " ", "W", "h", "a", "t", " ", "w", "e", "n", "t", " ", "w", "r", "o", "n", "g", ":" >>
Try_ == << "*", " ", "T", "r", "y", ":" >>
GetMoreHelp_ == << "*", " ", "G", "e", "t", " ", "m", "o", "r", "e", " ", "h", "e", "l", "p" >>
could_not == << "c", "o", "u", "l", "d", " ", "n", "o", "t" >>
cannot_ == << "c", "a", "n", "n", "o", "t" >>
failed_ == << "f", "a", "i", "l", "e", "d" >>
not_found == << "n", "o", "t", " ", "f", "o", "u", "n", "d" >>

RECURSIVE WhatWentWrongIn(_, _)
\* the matches in one line, from position from on, of
\* /\* What went wrong:[\s\S]*?(?=\* Try:|\* Get more help|$)/gm: the lazy
\* body stops at the first marker or at the first end of a line
WhatWentWrongIn(line, from) ==
    LET starts == Occurrences(line, from, WhatWentWrong_, FALSE)
    IN  IF starts = { } THEN << >>
        ELSE LET i == Least(starts)
                 body == i + Len(WhatWentWrong_)
                 stops == Occurrences(line, body, Try_, FALSE)
                              \cup Occurrences(line, body, GetMoreHelp_, FALSE)
                              \cup { Len(line) + 1 }
                 j == Least(stops)
             IN  << SubSeq(line, i, j - 1) >> \o WhatWentWrongIn(line, j)

\* allOutput.match(/\* What went wrong:[\s\S]*?(?=\* Try:|\* Get more help|$)/gm)
MatchWhatWentWrong(text) ==
    LET lines == SplitAt(text, LineTerminators)
    IN  Concat([k \in 1..Len(lines) |-> WhatWentWrongIn(lines[k], 1)])

\* faulty variant of the patterns: /error:.*$/gmi is missing
ErrorPatterns_WithoutErrorLines(allOutput) ==
    << MatchToEndOfLine(allOutput, FAILURE_, FALSE),
       MatchToEndOfLine(allOutput, Error_, FALSE),
       MatchToEndOfLine(allOutput, Exception_, FALSE),
       MatchWhatWentWrong(allOutput),
       MatchToEndOfLine(allOutput, could_not, TRUE),
       MatchToEndOfLine(allOutput, cannot_, TRUE),
       MatchToEndOfLine(allOutput, failed_, TRUE),
       MatchToEndOfLine(allOutput, not_found, TRUE) >>

\* errorPatterns, each applied to allOutput
ErrorPatterns(allOutput) ==
    << MatchToEndOfLine(allOutput, FAILURE_, FALSE),
       MatchToEndOfLine(allOutput, error_, TRUE),
       MatchToEndOfLine(allOutput, Error_, FALSE),
       MatchToEndOfLine(allOutput, Exception_, FALSE),
       MatchWhatWentWrong(allOutput),
       MatchToEndOfLine(allOutput, could_not, TRUE),
       MatchToEndOfLine(allOutput, cannot_, TRUE),
       MatchToEndOfLine(allOutput, failed_, TRUE),
       MatchToEndOfLine(allOutput, not_found, TRUE) >>

\* const allOutput = stdout + '\n' + stderr
AllOutput(out, err) == out \o << "\n" >> \o err

\* errorLines after the loop over the patterns
ErrorLines(allOutput) == Concat(ErrorPatterns(allOutput))

\* matches kept: [...new Set(errorLines)].slice(0, 10)
MAX_ERROR_LINES == 10

\* lines of the fallback: slice(-20)
FALLBACK_LINES == 20

\* errorMsg.substring(0, 1500)
MAX_ERROR_LENGTH == 1500

BuildFailedWithCode_ == << "B", "u", "i", "l", "d", " ", "f", "a", "i", "l", "e", "d", " ", "w", "i", "t", "h", " ", "c", "o", "d", "e", " " >>

\* `${code}` for the exit codes of the model
CodeText(code) ==
    CASE code = null -> << "n", "u", "l", "l" >>
      [] code = 0 -> << "0" >>
      [] code = 1 -> << "1" >>
      [] code = 126 -> << "1", "2", "6" >>
      [] code = 127 -> << "1", "2", "7" >>
      [] code = 0 - 2 -> << "-", "2" >>

\* errorMsg before it is cut: the matches joined, or the last lines, or the
\* default text
ErrorText(allOutput, code) ==
    LET errorLines == FirstN(Distinct(ErrorLines(allOutput)), MAX_ERROR_LINES)
    IN  IF Len(errorLines) > 0 THEN Join(errorLines, << "\n" >>)
        ELSE LET lastLines == LastN(NonBlank(Split(allOutput)), FALLBACK_LINES)
             IN  IF lastLines # << >> /\ Join(lastLines, << "\n" >>) # << >>
                 THEN Join(lastLines, << "\n" >>)
                 ELSE BuildFailedWithCode_ \o CodeText(code)

\* logFile, path.join(logDir, `build_${Date.now()}.log`), for a run started at
\* time 0 in the log directory "logs"
logFile == << "l", "o", "g", "s", "/", "b", "u", "i", "l", "d", "_", "0", ".", "l", "o", "g" >>

\* `\n\n[Debug log: ${logFile}.error]`
DebugLogPointer == << "\n", "\n", "[", "D", "e", "b", "u", "g", " ", "l", "o", "g", ":", " " >> \o logFile \o << ".", "e", "r", "r", "o", "r", "]" >>

\* faulty variant of the message: cut after the pointer has been appended
ErrorMessage_CutWithPointer(out, err, code) ==
    Substring(ErrorText(AllOutput(out, err), code) \o DebugLogPointer, MAX_ERROR_LENGTH)

\* errorMsg as given to reject: errorMsg.substring(0, 1500) and the pointer
ErrorMessage(out, err, code) ==
    Substring(ErrorText(AllOutput(out, err), code), MAX_ERROR_LENGTH) \o DebugLogPointer

----------------------------------------------------------------------------
(* The process supervisors: runCommand of src/builder/zipBuilder.js and     *)
(* runGradle of src/utils/progressUI.js.  Each spawns one child process,    *)
(* registers listeners for its stdout and stderr data, its close and its    *)
(* error event, and starts an interval timer that checks a timeout.  An     *)
(* action below is one callback run by the event loop, or one step of the   *)
(* operating system (the child terminates, the clock advances).             *)
(*   proc.state: "none"     no child process                                *)
(*               "failed"   spawn has failed, the error event is pending    *)
(*               "errored"  the error event has been emitted                *)
(*               "running"  the child runs                                  *)
(*               "exited"   the child has terminated, close is pending      *)
(*               "closed"   the close event has been emitted                *)
(*   proc.code:   the exit code, null while running and when a signal       *)
(*                terminated the child                                      *)
(*   proc.signal: the signal sent by kill, "none" if none was sent          *)

\* const TIMEOUT_MS = 30 * 60 * 1000, in runCommand and in runGradle
TIMEOUT_MS == 30 * 60 * 1000

\* the texts of the data events
Texts == { << "a" >>, << "b" >> }

\* exit codes of a child that terminates by itself: success and failure
ExitCodes == { 0, 1 }

\* the instants at which a supervised step is observed: the timeout met
\* exactly and overrun, counted from the spawn and from an output at the limit
StepInstants ==
    { TIMEOUT_MS, TIMEOUT_MS + MaxOverrun, 2 * TIMEOUT_MS, 2 * TIMEOUT_MS + MaxOverrun }

Pending == [state |-> "pending", value |-> << >>, error |-> "none"]

Resolved(value, error) == [state |-> "resolved", value |-> value, error |-> error]

\* 'Build timeout (30 minutes of inactivity)'
BuildTimeout_ ==
    << "B", "u", "i", "l", "d", " ", "t", "i", "m", "e", "o", "u", "t", " ", "(",
       "3", "0", " ", "m", "i", "n", "u", "t", "e", "s", " ", "o", "f", " ", "i", "n", "a", "c", "t", "i", "v", "i", "t", "y", ")" >>

\* the message of the error that Node emits when the shell cannot be spawned
SpawnError_ == << "s", "p", "a", "w", "n", " ", "/", "b", "i", "n", "/", "s", "h", " ", "E", "N", "O", "E", "N", "T" >>

\* reject(new Error('Build timeout (30 minutes of inactivity)')) and reject(err)
Rejected(error) ==
    [state |-> "rejected",
     value |-> IF error = "Timeout" THEN BuildTimeout_ ELSE SpawnError_,
     error |-> error]

\* reject(new Error(errorMsg)) of the close listener of runCommand
Failed(message) == [state |-> "rejected", value |-> message, error |-> "BuildFailed"]

\* faulty variant of a settlement: a later resolve or reject replaces the result
Settle_Overwrites(pr, outcome) == outcome

\* resolve(...) and reject(...): a promise settles once, later calls do nothing
Settle(pr, outcome) == IF pr.state = "pending" THEN outcome ELSE pr

\* faulty variant of the accumulation: the new text goes in front
AppendText_Prepends(acc, text) == text \o acc

\* stdout += text, stderr += text
AppendText(acc, text) == acc \o text

\* subprocess.kill(signal): the signal reaches a child that has not terminated
Kill(pr, signal) == IF pr.state = "running" THEN [pr EXCEPT !.signal = signal] ELSE pr

\* the data event as recorded in arrival order
Chunk(stream, text) == [stream |-> stream, text |-> text, at |-> now]

\* the two supervisors
Supervisors == { "runCommand", "runGradle" }

\* runCommand(cmd, args, cwd) or runGradle(projectDir) up to the return of its
\* promise: the child is spawned or the spawn fails
Spawned ==
    /\ supervisor \in Supervisors
    /\ proc \in { [state |-> st, code |-> null, signal |-> "none"] : st \in { "running", "failed" } }
    /\ stdout = << >>
    /\ stderr = << >>
    /\ chunks = << >>
    /\ lastOutputTime = now
    /\ buildStartTime = now
    /\ timeoutCheck = "on"
    /\ promise = Pending
    /\ onOutput \in (IF supervisor = "runCommand" THEN { NoCallback, Callback } ELSE { Callback })

InitStep ==
    /\ env = undefined
    /\ maxConcurrent = Constructor(env)
    /\ InitQueue
    /\ Spawned
    /\ NoJob

\* what a step of a supervisor leaves alone
qvars == <<maxConcurrent, activeBuilds, now, lastAcquire, released, arrivals,
           sessions, sessionData, inv, holder, forced, reclaimed, env, supervisor, pvars>>

\* substring(0, 150) of the text given to onOutput
MAX_OUTPUT_LENGTH == 150

\* '[!] ', put before a stderr text given to onOutput
Important_ == << "[", "!", "]", " " >>

Word_error == << "e", "r", "r", "o", "r" >>
Word_Error == << "E", "r", "r", "o", "r" >>
Word_Exception == << "E", "x", "c", "e", "p", "t", "i", "o", "n" >>

\* the condition under which runCommand gives a stderr text to onOutput
IsImportant(text) ==
    Includes(text, Word_error) \/ Includes(text, Word_Error) \/ Includes(text, Word_Exception)

\* runGradle: output.includes('BUILD')
BUILD_ == << "B", "U", "I", "L", "D" >>

\* runGradle: the text given to onProgress, a hammer sign and 'Building...'
Building_ == << "#", " ", "B", "u", "i", "l", "d", "i", "n", "g", ".", ".", "." >>

\* the child terminates: by itself with an exit code, or because of the
\* signal it was sent, and the code is then null (SIGKILL cannot be caught;
\* SIGTERM can be caught, and the child then goes on or exits with a code of
\* its own)
ProcessExits(code) ==
    /\ proc.state = "running"
    /\ code = null => proc.signal # "none"
    /\ proc.signal = "SIGKILL" => code = null
    /\ proc' = [proc EXCEPT !.state = "exited", !.code = code]
    /\ UNCHANGED <<qvars, stdout, stderr, chunks, lastOutputTime, buildStartTime,
                   timeoutCheck, promise,
                   onOutput>>

\* runCommand: proc.stdout.on('data')
StdoutData(text) ==
    /\ supervisor = "runCommand"
    /\ proc.state \in { "running", "exited" }
    /\ Len(chunks) < MaxChunks
    /\ stdout' = AppendText(stdout, text)
    /\ lastOutputTime' = now
    /\ chunks' = Append(chunks, Chunk("stdout", text))
    /\ onOutput' = IF onOutput.supplied /\ NonBlank(Split(text)) # << >>
                   THEN Called(onOutput, Substring(LastN(NonBlank(Split(text)), 1)[1], MAX_OUTPUT_LENGTH))
                   ELSE onOutput
    /\ UNCHANGED <<qvars, proc, stderr, buildStartTime, timeoutCheck, promise>>

\* runCommand: proc.stderr.on('data')
StderrData(text) ==
    /\ supervisor = "runCommand"
    /\ proc.state \in { "running", "exited" }
    /\ Len(chunks) < MaxChunks
    /\ stderr' = AppendText(stderr, text)
    /\ lastOutputTime' = now
    /\ chunks' = Append(chunks, Chunk("stderr", text))
    /\ onOutput' = IF onOutput.supplied /\ IsImportant(text)
                   THEN Called(onOutput, Important_ \o Substring(text, MAX_OUTPUT_LENGTH))
                   ELSE onOutput
    /\ UNCHANGED <<qvars, proc, stdout, buildStartTime, timeoutCheck, promise>>

\* runCommand: the two close listeners, in the order of their registration
Close ==
    /\ supervisor = "runCommand"
    /\ proc.state \in { "exited", "errored" }
    /\ proc' = [proc EXCEPT !.state = "closed"]
    /\ promise' = Settle(promise, IF proc.code = 0 THEN Resolved(stdout, "none")
                                  ELSE Failed(ErrorMessage(stdout, stderr, proc.code)))
    /\ timeoutCheck' = "off"
    /\ UNCHANGED <<qvars, stdout, stderr, chunks, lastOutputTime, buildStartTime,
                   onOutput>>

\* runCommand: proc.on('error'), emitted when the spawn has failed
Error ==
    /\ supervisor = "runCommand"
    /\ proc.state = "failed"
    /\ proc' = [proc EXCEPT !.state = "errored", !.code = 0 - 2]
    /\ promise' = Settle(promise, Rejected("SpawnFailed"))
    /\ UNCHANGED <<qvars, stdout, stderr, chunks, lastOutputTime, buildStartTime, timeoutCheck,
                   onOutput>>

\* runCommand: one firing of timeoutCheck
TimeoutCheck ==
    /\ supervisor = "runCommand"
    /\ timeoutCheck = "on"
    /\ IF now - lastOutputTime > TIMEOUT_MS
       THEN /\ timeoutCheck' = "off"
            /\ proc' = Kill(proc, "SIGTERM")
            /\ promise' = Settle(promise, Rejected("Timeout"))
       ELSE UNCHANGED <<timeoutCheck, proc, promise>>
    /\ UNCHANGED <<qvars, stdout, stderr, chunks, lastOutputTime, buildStartTime,
                   onOutput>>

NextRunCommand ==
    \/ \E code \in ExitCodes \cup { null } : ProcessExits(code)
    \/ \E text \in Texts : StdoutData(text)
    \/ \E text \in Texts : StderrData(text)
    \/ Close
    \/ Error
    \/ TimeoutCheck
    \/ \E t \in StepInstants : AdvanceTime(t)

InitRunCommand == InitStep /\ supervisor = "runCommand"

SpecRunCommand == InitRunCommand /\ [][NextRunCommand]_vars

\* runGradle: gradle.stdout.on('data')
GradleStdoutData(text) ==
    /\ supervisor = "runGradle"
    /\ proc.state \in { "running", "exited" }
    /\ Len(chunks) < MaxChunks
    /\ stdout' = AppendText(stdout, text)
    /\ chunks' = Append(chunks, Chunk("stdout", text))
    /\ onOutput' = IF Includes(text, BUILD_) THEN Called(onOutput, Building_) ELSE onOutput
    /\ UNCHANGED <<qvars, proc, stderr, lastOutputTime, buildStartTime, timeoutCheck, promise>>

\* runGradle: gradle.stderr.on('data')
GradleStderrData(text) ==
    /\ supervisor = "runGradle"
    /\ proc.state \in { "running", "exited" }
    /\ Len(chunks) < MaxChunks
    /\ stderr' = AppendText(stderr, text)
    /\ chunks' = Append(chunks, Chunk("stderr", text))
    /\ UNCHANGED <<qvars, proc, stdout, lastOutputTime, buildStartTime, timeoutCheck, promise,
                   onOutput>>

\* faulty variant of the close listeners of runGradle: the second listener,
\* which clears the interval, is missing
GradleClose_KeepsTimer ==
    /\ supervisor = "runGradle"
    /\ proc.state \in { "exited", "errored" }
    /\ proc' = [proc EXCEPT !.state = "closed"]
    /\ promise' = Settle(promise, IF proc.code = 0 THEN Resolved(<< >>, "none")
                                  ELSE Resolved(<< >>, "BuildFailed"))
    /\ UNCHANGED <<qvars, stdout, stderr, chunks, lastOutputTime, buildStartTime, timeoutCheck,
                   onOutput>>

\* runGradle: the two close listeners; the promise is resolved with
\* { success: true } or with { success: false, error }
GradleClose ==
    /\ supervisor = "runGradle"
    /\ proc.state \in { "exited", "errored" }
    /\ proc' = [proc EXCEPT !.state = "closed"]
    /\ promise' = Settle(promise, IF proc.code = 0 THEN Resolved(<< >>, "none")
                                  ELSE Resolved(<< >>, "BuildFailed"))
    /\ timeoutCheck' = "off"
    /\ UNCHANGED <<qvars, stdout, stderr, chunks, lastOutputTime, buildStartTime,
                   onOutput>>

\* runGradle: gradle.on('error')
GradleError ==
    /\ supervisor = "runGradle"
    /\ proc.state = "failed"
    /\ proc' = [proc EXCEPT !.state = "errored", !.code = 0 - 2]
    /\ promise' = Settle(promise, Resolved(<< >>, "SpawnFailed"))
    /\ UNCHANGED <<qvars, stdout, stderr, chunks, lastOutputTime, buildStartTime, timeoutCheck,
                   onOutput>>

\* runGradle: one firing of timeoutCheck
GradleTimeoutCheck ==
    /\ supervisor = "runGradle"
    /\ timeoutCheck = "on"
    /\ IF now - buildStartTime > TIMEOUT_MS
       THEN /\ timeoutCheck' = "off"
            /\ proc' = Kill(proc, "SIGKILL")
            /\ promise' = Settle(promise, Resolved(<< >>, "Timeout"))
       ELSE UNCHANGED <<timeoutCheck, proc, promise>>
    /\ UNCHANGED <<qvars, stdout, stderr, chunks, lastOutputTime, buildStartTime,
                   onOutput>>

NextRunGradle ==
    \/ \E code \in ExitCodes \cup { null } : ProcessExits(code)
    \/ \E text \in Texts : GradleStdoutData(text)
    \/ \E text \in Texts : GradleStderrData(text)
    \/ GradleClose
    \/ GradleError
    \/ GradleTimeoutCheck
    \/ \E t \in StepInstants : AdvanceTime(t)

InitRunGradle == InitStep /\ supervisor = "runGradle"

SpecRunGradle == InitRunGradle /\ [][NextRunGradle]_vars

\* A child that may write for ever. runCommand reads Date.now() only in the
\* difference Date.now() - lastActivity, so the clock is counted from the latest
\* data event on; of the text and of the events, what exceeds MaxChunks is not kept.
Kept(acc, item) == IF Len(acc) < MaxChunks THEN acc \o item ELSE acc

\* runCommand: proc.stdout.on('data'), any number of times
StdoutDataAgain(text) ==
    /\ supervisor = "runCommand"
    /\ proc.state \in { "running", "exited" }
    /\ stdout' = Kept(stdout, text)
    /\ lastOutputTime' = 0
    /\ now' = 0
    /\ chunks' = Kept(chunks, << [stream |-> "stdout", text |-> text, at |-> 0] >>)
    /\ onOutput' = IF onOutput.supplied /\ NonBlank(Split(text)) # << >>
                   THEN [onOutput EXCEPT !.calls =
                            Kept(@, << Substring(LastN(NonBlank(Split(text)), 1)[1], MAX_OUTPUT_LENGTH) >>)]
                   ELSE onOutput
    /\ UNCHANGED <<maxConcurrent, activeBuilds, lastAcquire, released, arrivals, sessions, inv,
                   holder, forced, reclaimed, env, supervisor, pvars, sessionData>>
    /\ UNCHANGED <<proc, stderr, buildStartTime, timeoutCheck, promise>>

\* runCommand: proc.stderr.on('data'), any number of times
StderrDataAgain(text) ==
    /\ supervisor = "runCommand"
    /\ proc.state \in { "running", "exited" }
    /\ stderr' = Kept(stderr, text)
    /\ lastOutputTime' = 0
    /\ now' = 0
    /\ chunks' = Kept(chunks, << [stream |-> "stderr", text |-> text, at |-> 0] >>)
    /\ onOutput' = IF onOutput.supplied /\ IsImportant(text)
                   THEN [onOutput EXCEPT !.calls =
                            Kept(@, << Important_ \o Substring(text, MAX_OUTPUT_LENGTH) >>)]
                   ELSE onOutput
    /\ UNCHANGED <<maxConcurrent, activeBuilds, lastAcquire, released, arrivals, sessions, inv,
                   holder, forced, reclaimed, env, supervisor, pvars, sessionData>>
    /\ UNCHANGED <<proc, stdout, buildStartTime, timeoutCheck, promise>>

NextSettles ==
    \/ \E code \in ExitCodes \cup { null } : ProcessExits(code)
    \/ \E text \in Texts : StdoutDataAgain(text)
    \/ \E text \in Texts : StderrDataAgain(text)
    \/ Close
    \/ Error
    \/ TimeoutCheck
    \/ \E t \in StepInstants : AdvanceTime(t)

\* the interval of the timeout poll keeps firing, the event loop delivers the
\* 'close' and 'error' events of the child, and time passes
\* (weak fairness of Close is written out with its guard, the step being
\* possible exactly when the child has exited or its spawn has failed)
CloseEnabled == supervisor = "runCommand" /\ proc.state \in { "exited", "errored" }

FairSettles ==
    /\ WF_vars(TimeoutCheck)
    /\ []<>(~CloseEnabled) \/ []<><<Close>>_vars
    /\ WF_vars(Error)
    /\ WF_vars(\E t \in StepInstants : AdvanceTime(t))

SpecSettles == InitRunCommand /\ [][NextSettles]_vars /\ FairSettles

\* a step supervised by either function
NextSupervisors ==
    \/ \E code \in ExitCodes \cup { null } : ProcessExits(code)
    \/ \E text \in Texts : StdoutData(text)
    \/ \E text \in Texts : StderrData(text)
    \/ Close
    \/ Error
    \/ TimeoutCheck
    \/ \E text \in Texts : GradleStdoutData(text)
    \/ \E text \in Texts : GradleStderrData(text)
    \/ GradleClose
    \/ GradleError
    \/ GradleTimeoutCheck
    \/ \E t \in StepInstants : AdvanceTime(t)

SpecSupervisors == InitStep /\ [][NextSupervisors]_vars

----------------------------------------------------------------------------
(* The error message of runCommand: the close listener applied to the       *)
(* output of a process that has failed.                                     *)

\* the characters that tell the lines of a block apart
Tags == << "a", "b", "c", "d", "e", "f", "g", "h", "i", "j", "k", "l", "m", "n", "o", "p", "q", "r", "s", "t", "u", "v", "w", "X", "y", "z" >>

\* the line "error: cannot find symbol"
CannotFindSymbol == << "e", "r", "r", "o", "r", ":", " ", "c", "a", "n", "n", "o", "t", " ", "f", "i", "n", "d", " ", "s", "y", "m", "b", "o", "l" >>

\* a line that matches the first pattern, one for every tag
FailureLine(i) == FAILURE_ \o << " ", Tags[i] >>

\* a line that matches no pattern, one for every tag
PlainLine(i) == << "l", Tags[i] >>

\* n times the character x
Filler(n) == [i \in 1..n |-> "x"]

\* a line that matches the third pattern and is longer than the message may be
LongErrorLine == Error_ \o Filler(MAX_ERROR_LENGTH)

\* a line that matches no pattern and is longer than the message may be
LongPlainLine == Filler(MAX_ERROR_LENGTH + 1)

\* a line of white space
BlankLine == << " ", "\t" >>

\* a "What went wrong" section written on one line
WhatWentWrongLine == WhatWentWrong_ \o << " ", "a" >> \o Try_ \o << " ", "b" >>

\* the lines that an output ends with
Fragments == { CannotFindSymbol, PlainLine(1), BlankLine, WhatWentWrongLine }

\* the lines longer than the message may be
LongLines == { LongErrorLine, LongPlainLine }

\* the blocks of lines that an output starts with: up to MaxNoise distinct
\* matching lines, or 1, FALLBACK_LINES or MaxPlain distinct plain lines
Blocks ==
    { [i \in 1..k |-> FailureLine(i)] : k \in 0..MaxNoise }
        \cup { [i \in 1..k |-> PlainLine(i)] : k \in { 1, FALLBACK_LINES, MaxPlain } }

\* the sequences of at most n elements of S
RECURSIVE UpTo(_, _)
UpTo(S, n) ==
    IF n = 0 THEN { << >> }
    ELSE UpTo(S, n - 1) \cup { Append(s, x) : s \in { t \in UpTo(S, n - 1) : Len(t) = n - 1 }, x \in S }

\* what the process has written to stdout: a block and up to MaxPicks lines,
\* or a long line with at most one line before it and one after it
StdoutInputs ==
    { Join(b \o e, << "\n" >>) : b \in Blocks, e \in UpTo(Fragments, MaxPicks) }
        \cup { Join(b \o << l >> \o e, << "\n" >>) :
                   b \in UpTo(Fragments, 1), l \in LongLines, e \in UpTo(Fragments, 1) }

\* what the process has written to stderr
StderrInputs == { << >>, << "w", "\n" >> }

\* how a failed process terminates: with exit code 1 or by a signal
FailureCodes == { 1, null }

\* runCommand when its process has written its output and is about to fail
InitExtract ==
    /\ env = undefined
    /\ maxConcurrent = Constructor(env)
    /\ InitQueue
    /\ supervisor = "runCommand"
    /\ proc = [state |-> "running", code |-> null, signal |-> "none"]
    /\ stdout \in StdoutInputs
    /\ stderr \in StderrInputs
    /\ chunks = (IF stdout = << >> THEN << >> ELSE << Chunk("stdout", stdout) >>)
                   \o (IF stderr = << >> THEN << >> ELSE << Chunk("stderr", stderr) >>)
    /\ lastOutputTime = now
    /\ buildStartTime = now
    /\ timeoutCheck = "on"
    /\ promise = Pending
    /\ onOutput = NoCallback
    /\ NoJob

NextExtract ==
    \/ \E code \in FailureCodes : ProcessExits(code)
    \/ Close
    \/ TimeoutCheck
    \/ \E t \in { TIMEOUT_MS + MaxOverrun } : AdvanceTime(t)

SpecExtract == InitExtract /\ [][NextExtract]_vars

\* texts of stderr data events: with and without the words that runCommand
\* looks for, in several spellings
StderrTexts ==
    { << "E", "R", "R", "O", "R", ":", " ", "e", "\n" >>,
      << "e", "r", "r", "o", "r", ":", " ", "e", "\n" >>,
      << "a", "n", " ", "e", "x", "c", "e", "p", "t", "i", "o", "n", "\n" >>,
      << "E", "x", "c", "e", "p", "t", "i", "o", "n", " ", "i", "n", " ", "e", "\n" >>,
      << "E", "r", "r", "o", "r", "\n" >>,
      << "w", "a", "r", "n", "i", "n", "g", ":", " ", "w", "\n" >> }

\* texts of stdout data events: several lines, the last of them blank
StdoutTexts == { << "a", "\n", "b", "\n", " ", "\n" >> }

\* runCommand and the texts that it gives to its callback
NextOutput ==
    \/ \E code \in ExitCodes : ProcessExits(code)
    \/ \E text \in StdoutTexts : StdoutData(text)
    \/ \E text \in StderrTexts : StderrData(text)
    \/ Close
    \/ Error

SpecOutput == InitRunCommand /\ [][NextOutput]_vars

\* the exit codes of the shell (spawn with shell: true) when it cannot launch
\* the command: 126 permission denied, 127 not found; no process of the model
\* exits with these codes for another reason
LaunchFailureCodes == { 126, 127 }

\* what the shell writes to stderr when it cannot launch the command
LaunchFailureTexts ==
    { << "s", "h", ":", " ", "1", ":", " ", "f", "l", "u", "t", "t", "e", "r", ":", " ", "n", "o", "t", " ", "f", "o", "u", "n", "d", "\n" >>,
      << "s", "h", ":", " ", "1", ":", " ", ".", "/", "g", "r", "a", "d", "l", "e", "w", ":", " ", "P", "e", "r", "m", "i", "s", "s", "i", "o", "n", " ", "d", "e", "n", "i", "e", "d", "\n" >> }

\* both supervisors, with a command that the shell may fail to launch
NextLaunch ==
    \/ \E code \in ExitCodes \cup LaunchFailureCodes : ProcessExits(code)
    \/ \E text \in LaunchFailureTexts : StderrData(text)
    \/ \E text \in LaunchFailureTexts : GradleStderrData(text)
    \/ Close
    \/ Error
    \/ GradleClose
    \/ GradleError

SpecLaunch == InitStep /\ [][NextLaunch]_vars

----------------------------------------------------------------------------
(* One ZIP build: handleZipUpload from its call of buildFromZip to its      *)
(* return, with the pipelines buildFlutter and buildAndroid of zipBuilder.js *)
(* and the steps they hand to runCommand.                                    *)

\* the commands a pipeline hands to runCommand, in the order of the code
FlutterSteps == << "rm", "flutter clean", "flutter pub get", "flutter build apk" >>

AndroidSteps == << "gradle" >>

ProjectTypes == { "flutter", "android" }

\* the child has been spawned, has not terminated, and has not been sent SIGKILL
Alive(pr) == pr.state = "running" /\ pr.signal # "SIGKILL"

\* fs.remove(path).catch(() => { }): the removal succeeds or fails, and nothing is thrown
Removed(done) == IF done THEN "removed" ELSE "removal failed"

\* runCommand(cmd, args, projectDir, onOutput) as the pipeline calls it: the child
\* of the new step is spawned or its spawn fails; the child of the step before
\* may still be running
RunCommand(step, callback) ==
    /\ supervisor' = "runCommand"
    /\ \E st \in { "running", "failed" } : proc' = [state |-> st, code |-> null, signal |-> "none"]
    /\ stdout' = << >>
    /\ stderr' = << >>
    /\ chunks' = << >>
    /\ lastOutputTime' = now
    /\ buildStartTime' = now
    /\ timeoutCheck' = "on"
    /\ promise' = Pending
    /\ onOutput' = callback
    /\ started' = Append(started, step)
    /\ orphans' = orphans + (IF Alive(proc) THEN 1 ELSE 0)

\* the statements of the pipeline that leave the queue and the front end alone
jvars_ == <<maxConcurrent, activeBuilds, now, lastAcquire, released, arrivals,
            sessions, sessionData, inv, holder, forced, reclaimed, env, projectDir, apkPath>>

jvars == <<jvars_, names>>

\* handleZipUpload has stored the uploaded archive and calls buildFromZip
InitZipBuild ==
    /\ env = undefined
    /\ maxConcurrent = Constructor(env)
    /\ InitQueue
    /\ NoStep
    /\ job \in { [pc |-> "buildFromZip", type |-> type, tempDir |-> "absent", zipPath |-> "present",
                  apkPath |-> "absent", keepAliveInterval |-> "none", error |-> "none",
                  result |-> "none", reported |-> "none", released |-> FALSE] :
                 type \in ProjectTypes }
    /\ started = << >>
    /\ orphans = 0
    /\ names = << >>
    /\ projectDir = << >>
    /\ apkPath = Unsearched

\* buildFromZip: ensureDir, the extraction or findProjectRoot throws or finds nothing,
\* and buildAndroid: chmod throws
ExtractErrors == { "EnsureDirFailed", "ExtractFailed", "InvalidProject", "ChmodFailed" }

BuildFromZipThrows(error) ==
    /\ job.pc = "buildFromZip"
    /\ error = "ChmodFailed" => job.type = "android"
    /\ job' = [job EXCEPT !.pc = "catch", !.error = error,
                          !.tempDir = IF error = "EnsureDirFailed" THEN "absent" ELSE "present"]
    /\ UNCHANGED <<jvars, svars, started, orphans>>

\* buildFromZip up to the first supervised step: the cache cleanup of buildFlutter
\* or the Gradle build of buildAndroid
StartPipeline ==
    /\ job.pc = "buildFromZip"
    /\ LET step == IF job.type = "flutter" THEN FlutterSteps[1] ELSE AndroidSteps[1]
       IN  /\ job' = [job EXCEPT !.pc = step, !.tempDir = "present"]
           /\ RunCommand(step, NoCallback)
    /\ UNCHANGED jvars

\* the promise of the step the pipeline awaits has settled
Settled == promise.state \in { "resolved", "rejected" }

\* buildFlutter after runCommand('rm', ...).catch(() => { }): the fs-based cleanup,
\* gradle.properties, then flutter clean
CacheCleanupDone ==
    /\ job.pc = "rm"
    /\ Settled
    /\ job' = [job EXCEPT !.pc = "flutter clean"]
    /\ RunCommand("flutter clean", NoCallback)
    /\ UNCHANGED jvars

\* buildFlutter after runCommand('flutter', ['clean'], ...).catch(() => { })
FlutterCleanDone ==
    /\ job.pc = "flutter clean"
    /\ Settled
    /\ job' = [job EXCEPT !.pc = "flutter pub get"]
    /\ RunCommand("flutter pub get", Callback)
    /\ UNCHANGED jvars

\* faulty variant: a rejection of flutter pub get is ignored as well
PubGetDone_IgnoresFailure ==
    /\ job.pc = "flutter pub get"
    /\ Settled
    /\ job' = [job EXCEPT !.pc = "flutter build apk", !.keepAliveInterval = "on"]
    /\ RunCommand("flutter build apk", Callback)
    /\ UNCHANGED jvars

\* buildFlutter after await runCommand('flutter', ['pub', 'get'], ...): the
\* keep-alive timer is set and the build is started
PubGetDone ==
    /\ job.pc = "flutter pub get"
    /\ promise.state = "resolved"
    /\ job' = [job EXCEPT !.pc = "flutter build apk", !.keepAliveInterval = "on"]
    /\ RunCommand("flutter build apk", Callback)
    /\ UNCHANGED jvars

\* buildFlutter and buildAndroid after the build command has resolved
BuildDone ==
    /\ job.pc \in { "flutter build apk", "gradle" }
    /\ promise.state = "resolved"
    /\ job' = [job EXCEPT !.pc = "locate",
                          !.keepAliveInterval = IF @ = "on" THEN "off" ELSE @]
    /\ UNCHANGED <<jvars, svars, started, orphans>>

\* an awaited runCommand rejects: the pipeline throws to the catch of buildFromZip
StepThrows ==
    /\ job.pc \in { "flutter pub get", "flutter build apk", "gradle" }
    /\ promise.state = "rejected"
    /\ job' = [job EXCEPT !.pc = "catch", !.error = promise.error,
                          !.keepAliveInterval = IF @ = "on" THEN "off" ELSE @]
    /\ UNCHANGED <<jvars, svars, started, orphans>>

\* the pipeline looks for the APK and copies it to the output directory; then
\* buildFromZip removes the archive and returns { success: true, apkPath, buildDir }
LocateOutcomes == { "found", "ArtifactNotFound", "CopyFailed" }

Locate(outcome, done) ==
    /\ job.pc = "locate"
    /\ IF outcome = "found"
       THEN job' = [job EXCEPT !.pc = "stat", !.apkPath = "present", !.zipPath = Removed(done),
                               !.result = "success"]
       ELSE /\ done
            /\ job' = [job EXCEPT !.pc = "catch", !.error = outcome]
    /\ UNCHANGED <<jvars, svars, started, orphans>>

\* buildFromZip: the catch removes the working directory and the archive and
\* returns { success: false, error }; handleZipUpload throws that error
Catch(doneDir, doneZip) ==
    /\ job.pc = "catch"
    /\ job' = [job EXCEPT !.pc = "report", !.tempDir = Removed(doneDir),
                          !.zipPath = Removed(doneZip), !.result = "failure"]
    /\ UNCHANGED <<jvars, svars, started, orphans>>

\* handleZipUpload after a successful build: fs.stat, editMessageText or
\* sendDocument throws
DeliveryErrors == { "StatFailed", "EditFailed", "SendFailed" }

DeliveryThrows(error) ==
    /\ job.pc = "stat"
    /\ job' = [job EXCEPT !.pc = "report", !.error = error]
    /\ UNCHANGED <<jvars, svars, started, orphans>>

\* handleZipUpload: the APK is larger than MAX_FILE_SIZE, the build is registered
\* for download, the link is sent and the handler returns
Oversized ==
    /\ job.pc = "stat"
    /\ job' = [job EXCEPT !.pc = "returned", !.reported = "link"]
    /\ UNCHANGED <<jvars, svars, started, orphans>>

\* handleZipUpload: the APK is sent, then the APK and the build directory are removed
Deliver(doneApk, doneDir) ==
    /\ job.pc = "stat"
    /\ job' = [job EXCEPT !.pc = "notify", !.reported = "document",
                          !.apkPath = Removed(doneApk), !.tempDir = Removed(doneDir)]
    /\ UNCHANGED <<jvars, svars, started, orphans>>

\* handleZipUpload: the closing sendMessage, then release and return, or the catch
Notify(throws) ==
    /\ job.pc = "notify"
    /\ job' = IF throws THEN [job EXCEPT !.pc = "report", !.error = "SendFailed"]
              ELSE [job EXCEPT !.pc = "returned", !.released = TRUE]
    /\ UNCHANGED <<jvars, svars, started, orphans>>

\* handleZipUpload: the catch edits the status message into the error, then
\* release and return; if the edit throws, the handler rejects
Report(throws) ==
    /\ job.pc = "report"
    /\ job' = IF throws THEN [job EXCEPT !.pc = "thrown"]
              ELSE [job EXCEPT !.pc = "returned", !.reported = job.error, !.released = TRUE]
    /\ UNCHANGED <<jvars, svars, started, orphans>>

\* the child of an earlier step terminates
OrphanExits ==
    /\ orphans > 0
    /\ orphans' = orphans - 1
    /\ UNCHANGED <<jvars, svars, job, started>>

\* handleZipUpload has returned or rejected
Finished == job.pc \in { "returned", "thrown" }

NextZipBuild ==
    \/ \E error \in ExtractErrors : BuildFromZipThrows(error)
    \/ StartPipeline
    \/ CacheCleanupDone
    \/ FlutterCleanDone
    \/ PubGetDone
    \/ BuildDone
    \/ StepThrows
    \/ \E outcome \in LocateOutcomes, done \in BOOLEAN : Locate(outcome, done)
    \/ \E doneDir \in BOOLEAN, doneZip \in BOOLEAN : Catch(doneDir, doneZip)
    \/ \E error \in DeliveryErrors : DeliveryThrows(error)
    \/ Oversized
    \/ \E doneApk \in BOOLEAN, doneDir \in BOOLEAN : Deliver(doneApk, doneDir)
    \/ \E throws \in BOOLEAN : Notify(throws)
    \/ \E throws \in BOOLEAN : Report(throws)
    \/ OrphanExits
    \/ \E code \in ExitCodes \cup { null } : ProcessExits(code)
    \/ Close
    \/ Error
    \/ TimeoutCheck
    \/ \E t \in StepInstants : AdvanceTime(t)

SpecZipBuild == InitZipBuild /\ [][NextZipBuild]_vars

\* one ZIP build with the output of its children: the data listeners of
\* runCommand stay registered until the streams of the child end, whatever has
\* become of the promise
ProgressTexts == { << "a" >> }

NextProgress ==
    \/ NextZipBuild
    \/ \E text \in ProgressTexts : StdoutData(text)
    \/ \E text \in ProgressTexts : StderrData(text)

SpecProgress == InitZipBuild /\ [][NextProgress]_vars

----------------------------------------------------------------------------
(* The paths builds choose: the working directory of buildFromZip, the log  *)
(* file of every runCommand call and the output artifact of buildFlutter    *)
(* and buildAndroid. Builds of different requesters run at the same time    *)
(* when maxConcurrent allows it.                                            *)

\* temp/<uuidv4()>: a version 4 UUID is modelled as a value no earlier call returned
TempDir(uuid) == << "temp", uuid >>

\* logs/build_<Date.now()>.log
LogFile(t) == << "logs", "build", t >>

\* output/flutter_<Date.now()>.apk and output/android_<Date.now()>.apk
FinalPath(type, t) == << "output", type, t >>

\* the milliseconds at which the builds are observed
Milliseconds == 1..MaxClock

\* no build has chosen a path; the queue admits maxConcurrent builds at a time
InitNames ==
    /\ env \in ConfiguredBuilds
    /\ maxConcurrent = Constructor(env)
    /\ InitQueue
    /\ NoStep
    /\ NoJob

\* buildFromZip is entered by a build the queue has admitted: jobId = uuidv4(),
\* tempDir = temp/<jobId>
BuildFromZipEntered(type) ==
    /\ Len(names) < Min(MaxBuilds, maxConcurrent)
    /\ names' = Append(names, [type |-> type, tempDir |-> TempDir(Len(names) + 1),
                               logFiles |-> << >>, finalPath |-> << >>])
    /\ UNCHANGED <<jvars_, svars, job, started, orphans>>

\* a step of build b enters runCommand: logFile = logs/build_<Date.now()>.log;
\* the child of the step before it, which has closed, ran for a millisecond at least
RunCommandEntered(b) ==
    /\ b \in 1..Len(names)
    /\ names[b].finalPath = << >>
    /\ Len(names[b].logFiles) < MaxRuns
    /\ \A i \in 1..Len(names[b].logFiles) : names[b].logFiles[i] # LogFile(now)
    /\ names' = [names EXCEPT ![b].logFiles = Append(@, LogFile(now))]
    /\ UNCHANGED <<jvars_, svars, job, started, orphans>>

\* build b copies its APK to the output directory: finalPath = output/<type>_<Date.now()>.apk
CopyToOutput(b) ==
    /\ b \in 1..Len(names)
    /\ names[b].finalPath = << >>
    /\ names[b].logFiles # << >>
    /\ names' = [names EXCEPT ![b].finalPath = FinalPath(names[b].type, now)]
    /\ UNCHANGED <<jvars_, svars, job, started, orphans>>

NextNames ==
    \/ \E type \in ProjectTypes : BuildFromZipEntered(type)
    \/ \E b \in 1..MaxBuilds : RunCommandEntered(b)
    \/ \E b \in 1..MaxBuilds : CopyToOutput(b)
    \/ \E t \in Milliseconds : AdvanceTime(t)

SpecNames == InitNames /\ [][NextNames]_vars

----------------------------------------------------------------------------
(* The search for the APK: findApk and findFileRecursive of zipBuilder.js   *)
(* and findApk of progressUI.js. A directory tree is a function from the    *)
(* paths of its readable directories to their listings in readdir order; a  *)
(* path is the sequence of names below the directory searched.              *)

\* the names of files and directories, as strings of characters
D_ == << "d" >>
A_apk == << "a", ".", "a", "p", "k" >>
B_apk == << "b", ".", "a", "p", "k" >>
A_txt == << "a", ".", "t", "x", "t" >>
Link_ == << "l" >>
DotGradle_ == << ".", "g", "r", "a", "d", "l", "e" >>
NodeModules_ == << "n", "o", "d", "e", "_", "m", "o", "d", "u", "l", "e", "s" >>
Empty_ == << "e" >>
Side_ == << "s" >>
Unreadable_ == << "u" >>
X_apk == << "x", ".", "a", "p", "k" >>
App_ == << "a", "p", "p" >>
Build_ == << "b", "u", "i", "l", "d" >>
Outputs_ == << "o", "u", "t", "p", "u", "t", "s" >>
Apk_ == << "a", "p", "k" >>
Debug_ == << "d", "e", "b", "u", "g" >>
Release_ == << "r", "e", "l", "e", "a", "s", "e" >>
AppDash_ == << "a", "p", "p", "-" >>
DotApk_ == << ".", "a", "p", "k" >>
Dot_ == << "." >>
AppDebugApk_ == << "a", "p", "p", "-", "d", "e", "b", "u", "g", ".", "a", "p", "k" >>
AppReleaseApk_ == << "a", "p", "p", "-", "r", "e", "l", "e", "a", "s", "e", ".", "a", "p", "k" >>
AppReleaseUnsignedApk_ == << "a", "p", "p", "-", "r", "e", "l", "e", "a", "s", "e", "-", "u", "n", "s", "i", "g", "n", "e", "d", ".", "a", "p", "k" >>
OutputMetadata_ == << "o", "u", "t", "p", "u", "t", "-", "m", "e", "t", "a", "d", "a", "t", "a", ".", "j", "s", "o", "n" >>

\* name.endsWith(suffix) and name.startsWith(prefix)
EndsWith(name, suffix) ==
    Len(name) >= Len(suffix) /\ StartsAt(name, Len(name) - Len(suffix) + 1, suffix, FALSE)

StartsWith(name, prefix) == StartsAt(name, 1, prefix, FALSE)

\* an entry of a listing: its name and what fs.stat makes of it
File(name) == [name |-> name, stat |-> "file"]

Directory(name) == [name |-> name, stat |-> "directory"]

\* an entry on which fs.stat throws, such as a link to a file that is gone
Dangling(name) == [name |-> name, stat |-> "throws"]

\* maxDepth = 5, the default of the parameter of findFileRecursive
maxDepth == 5

\* return null, and return itemPath from the call at the given depth
Null == [state |-> "null", depth |-> 0, path |-> << >>]

Found(depth, path) == [state |-> "found", depth |-> depth, path |-> path]

\* fs.pathExists(path)
PathExists(tree, path) ==
    \/ path = << >>
    \/ /\ SubSeq(path, 1, Len(path) - 1) \in DOMAIN tree
       /\ \E i \in 1..Len(tree[SubSeq(path, 1, Len(path) - 1)]) :
              /\ tree[SubSeq(path, 1, Len(path) - 1)][i].name = path[Len(path)]
              /\ tree[SubSeq(path, 1, Len(path) - 1)][i].stat # "throws"

RECURSIVE FindFileRecursive(_, _, _)
RECURSIVE ForItems(_, _, _, _)

\* findFileRecursive: the loop over the items of dir, from the i-th item on;
\* an exception of fs.stat leaves the loop and the call returns null
ForItems(tree, dir, depth, i) ==
    IF i > Len(tree[dir]) THEN Null
    ELSE LET item == tree[dir][i]
             itemPath == Append(dir, item.name)
         IN  IF item.stat = "throws" THEN Null
             ELSE IF item.stat = "file" /\ EndsWith(item.name, DotApk_) THEN Found(depth, itemPath)
             ELSE IF /\ item.stat = "directory"
                     /\ ~StartsWith(item.name, Dot_)
                     /\ item.name # NodeModules_
                  THEN LET found == FindFileRecursive(tree, itemPath, depth + 1)
                       IN  IF found.state = "found" THEN found
                           ELSE ForItems(tree, dir, depth, i + 1)
             ELSE ForItems(tree, dir, depth, i + 1)

\* faulty variant: the search stops one level early
FindFileRecursive_StopsEarly(tree, dir, depth) ==
    IF depth >= maxDepth THEN Null
    ELSE IF dir \notin DOMAIN tree THEN Null
    ELSE ForItems(tree, dir, depth, 1)

\* findFileRecursive(dir, '.apk', maxDepth, depth); fs.readdir throws on a
\* directory that cannot be read, and the call returns null
FindFileRecursive(tree, dir, depth) ==
    IF depth > maxDepth THEN Null
    ELSE IF dir \notin DOMAIN tree THEN Null
    ELSE ForItems(tree, dir, depth, 1)

\* findApk of zipBuilder.js: possiblePaths
PossiblePaths(buildType) ==
    << << App_, Build_, Outputs_, Apk_, buildType, AppDash_ \o buildType \o DotApk_ >>,
       << Build_, Outputs_, Apk_, buildType, AppDash_ \o buildType \o DotApk_ >>,
       << App_, Build_, Outputs_, Apk_, buildType, AppDebugApk_ >>,
       << Build_, Outputs_, Apk_, buildType, AppDebugApk_ >> >>

\* findApk(projectDir, buildType) of zipBuilder.js: the first of possiblePaths
\* that exists, and the recursive search as fallback
FindApk(tree, buildType) ==
    LET hits == { i \in 1..Len(PossiblePaths(buildType)) : PathExists(tree, PossiblePaths(buildType)[i]) }
    IN  IF hits # { }
        THEN Found(Len(PossiblePaths(buildType)[Least(hits)]) - 1, PossiblePaths(buildType)[Least(hits)])
        ELSE FindFileRecursive(tree, << >>, 0)

\* the build types of a ZIP build
BuildTypes == { Debug_, Release_ }

\* a chain of j directories below the directory searched
ChainPath(j) == [i \in 1..j |-> D_]

\* what else a directory on the way holds: nothing, a file that is no APK, a
\* dangling link, an excluded directory with an APK in it, an empty directory,
\* a directory with an APK, a directory that cannot be read, a directory whose
\* name ends in .apk
Decoys ==
    { [entries |-> << >>, listed |-> FALSE, items |-> << >>],
      [entries |-> << File(A_txt) >>, listed |-> FALSE, items |-> << >>],
      [entries |-> << Dangling(Link_) >>, listed |-> FALSE, items |-> << >>],
      [entries |-> << Directory(DotGradle_) >>, listed |-> TRUE, items |-> << File(B_apk) >>],
      [entries |-> << Directory(NodeModules_) >>, listed |-> TRUE, items |-> << File(B_apk) >>],
      [entries |-> << Directory(Empty_) >>, listed |-> TRUE, items |-> << >>],
      [entries |-> << Directory(Side_) >>, listed |-> TRUE, items |-> << File(B_apk) >>],
      [entries |-> << Directory(Unreadable_) >>, listed |-> FALSE, items |-> << >>],
      [entries |-> << Directory(X_apk) >>, listed |-> TRUE, items |-> << >>] }

\* the tree with a chain of n directories, the entry last in the n-th of them,
\* and a decoy in the k-th, listed before or after the entry of the chain
ChainTree(n, last, decoy, k, before) ==
    [ p \in { ChainPath(j) : j \in 0..n } \cup
            (IF decoy.listed THEN { Append(ChainPath(k), decoy.entries[1].name) } ELSE { }) |->
        IF p = ChainPath(Len(p))
        THEN LET main == IF Len(p) < n THEN << Directory(D_) >> ELSE << last >>
                 extra == IF Len(p) = k THEN decoy.entries ELSE << >>
             IN  IF before THEN extra \o main ELSE main \o extra
        ELSE decoy.items ]

ChainTrees ==
    UNION { { ChainTree(n, last, decoy, k, before) :
                last \in { File(A_apk), File(A_txt) }, decoy \in Decoys, k \in 0..n,
                before \in BOOLEAN } : n \in 0..MaxNesting }

\* the output tree of a Gradle build: <top>/build/outputs/apk/<variant>/<file>
GradleTree(top, variant, file) ==
    LET dirs == top \o << Build_, Outputs_, Apk_, variant >>
    IN  [ p \in { SubSeq(dirs, 1, j) : j \in 0..Len(dirs) } |->
            IF Len(p) < Len(dirs) THEN << Directory(dirs[Len(p) + 1]) >>
            ELSE << File(OutputMetadata_), File(file) >> ]

GradleTrees ==
    { GradleTree(top, variant, file) :
        top \in { << >>, << App_ >>, << D_, App_ >>, << D_, D_, App_ >> }, variant \in BuildTypes,
        file \in { AppDebugApk_, AppReleaseApk_, AppReleaseUnsignedApk_ } }

\* buildAndroid reaches findApk(projectDir, buildType)
InitFindApk ==
    /\ env = undefined
    /\ maxConcurrent = Constructor(env)
    /\ InitQueue
    /\ NoStep
    /\ job = NoJobRecord
    /\ started = << >>
    /\ orphans = 0
    /\ names = << >>
    /\ projectDir \in { [files |-> tree, buildType |-> buildType] :
                          tree \in ChainTrees \cup GradleTrees, buildType \in BuildTypes }
    /\ apkPath = Unsearched

\* buildAndroid: apkPath = await findApk(projectDir, buildType)
FindApkReturns ==
    /\ apkPath = Unsearched
    /\ projectDir # << >>
    /\ "files" \in DOMAIN projectDir
    /\ apkPath' = FindApk(projectDir.files, projectDir.buildType)
    /\ UNCHANGED <<maxConcurrent, activeBuilds, now, lastAcquire, released, arrivals,
                   sessions, sessionData, inv, holder, forced, reclaimed, env, svars, job,
                   started, orphans, names, projectDir>>

NextFindApk == FindApkReturns

SpecFindApk == InitFindApk /\ [][NextFindApk]_vars

\* readdir throws: the path exists and cannot be listed
Threw == [state |-> "throws", depth |-> 0, path |-> << >>]

\* the positions of the names of a listing that end in .apk
ApkAt(items) == { i \in 1..Len(items) : EndsWith(items[i].name, DotApk_) }

\* app/build/outputs/apk/release and app/build/outputs/apk/debug
ReleaseDir == << App_, Build_, Outputs_, Apk_, Release_ >>

DebugDir == << App_, Build_, Outputs_, Apk_, Debug_ >>

\* files.find(f => f.endsWith('.apk')) in a directory, and the path returned
FindIn(tree, dir) ==
    IF dir \notin DOMAIN tree THEN Threw
    ELSE IF ApkAt(tree[dir]) = { } THEN Null
    ELSE Found(Len(dir), Append(dir, tree[dir][Least(ApkAt(tree[dir]))].name))

\* findApk(projectDir) of progressUI.js
FindBuiltApk(tree) ==
    IF ~PathExists(tree, ReleaseDir)
    THEN IF PathExists(tree, DebugDir) THEN FindIn(tree, DebugDir) ELSE Null
    ELSE FindIn(tree, ReleaseDir)

\* what an output directory of the Gradle build holds: the directory is
\* absent, cannot be read, or lists up to two files
OutputFiles == { File(OutputMetadata_), File(AppDebugApk_), File(AppReleaseUnsignedApk_) }

OutputDirs ==
    { [exists |-> FALSE, listed |-> FALSE, items |-> << >>],
      [exists |-> TRUE, listed |-> FALSE, items |-> << >>] } \cup
    { [exists |-> TRUE, listed |-> TRUE, items |-> items] :
        items \in { << >> } \cup { << f >> : f \in OutputFiles } \cup
                  { pair \in { << f, g >> : f \in OutputFiles, g \in OutputFiles } :
                      pair[1] # pair[2] } }

\* the tree of a generated project after runGradle
OutputTree(release, debug) ==
    LET apkDir == << App_, Build_, Outputs_, Apk_ >>
        variants == (IF release.exists THEN << Directory(Release_) >> ELSE << >>)
                       \o (IF debug.exists THEN << Directory(Debug_) >> ELSE << >>)
    IN  [ p \in { SubSeq(apkDir, 1, j) : j \in 0..Len(apkDir) } \cup
                (IF release.listed THEN { ReleaseDir } ELSE { }) \cup
                (IF debug.listed THEN { DebugDir } ELSE { }) |->
            IF Len(p) < Len(apkDir) THEN << Directory(apkDir[Len(p) + 1]) >>
            ELSE IF p = apkDir THEN variants
            ELSE IF p = ReleaseDir THEN release.items
            ELSE debug.items ]

\* buildApk reaches findApk(buildDir): runGradle has resolved with success
InitLocate ==
    /\ env = undefined
    /\ maxConcurrent = Constructor(env)
    /\ InitQueue
    /\ NoStep
    /\ job = NoJobRecord
    /\ started = << >>
    /\ orphans = 0
    /\ names = << >>
    /\ projectDir \in { [files |-> OutputTree(release, debug)] :
                          release \in OutputDirs, debug \in OutputDirs }
    /\ apkPath = Unsearched

\* buildApk: apkPath = await findApk(buildDir)
FindBuiltApkReturns ==
    /\ apkPath = Unsearched
    /\ projectDir # << >>
    /\ "buildType" \notin DOMAIN projectDir
    /\ apkPath' = FindBuiltApk(projectDir.files)
    /\ UNCHANGED <<maxConcurrent, activeBuilds, now, lastAcquire, released, arrivals,
                   sessions, sessionData, inv, holder, forced, reclaimed, env, svars, job,
                   started, orphans, names, projectDir>>

NextLocate == FindBuiltApkReturns

SpecLocate == InitLocate /\ [][NextLocate]_vars

----------------------------------------------------------------------------
(* Properties of the build queue *)

Entries(m) == { m[i] : i \in 1..Len(m) }

\* C1: in every reachable state of the queue, whatever the interleaving of
\* acquire, release, forceRelease, updateActivity and watchdog ticks, the
\* number of slots in activeBuilds is at most maxConcurrent.
C1_SizeWithinCapacity == Len(activeBuilds) <= maxConcurrent

\* the queue is full and the last acquire, of a requester without a slot, was refused
C1_Witness ==
    /\ Len(activeBuilds) = maxConcurrent
    /\ lastAcquire.chatId # null
    /\ ~lastAcquire.ret
    /\ ~MapHas(activeBuilds, lastAcquire.chatId)

\* C4: a requester holds at most one slot at any time, and acquire(id) called
\* while id holds a slot returns false.
C4_OneSlotPerRequester ==
    [][ /\ NoDuplicateKeys(activeBuilds')
        /\ \A c \in ChatIds :
              (AcquireCall(c) /\ MapHas(activeBuilds, c)) => ~lastAcquire'.ret ]_vars

\* the last acquire was refused for a requester that holds a slot, with room left
C4_Witness ==
    /\ lastAcquire.chatId # null
    /\ ~lastAcquire.ret
    /\ MapHas(activeBuilds, lastAcquire.chatId)
    /\ Len(activeBuilds) < maxConcurrent

\* C5: acquire(id) returns true exactly when id holds no slot and the number
\* of slots is below capacity; on success the only change of the queue is the
\* insertion of one slot for id with startTime = lastActivity = now.
C5_AcquireContract ==
    [][ \A c \in ChatIds : AcquireCall(c) =>
          /\ lastAcquire'.ret <=> (~MapHas(activeBuilds, c) /\ Len(activeBuilds) < maxConcurrent)
          /\ lastAcquire'.ret =>
                /\ Len(activeBuilds') = Len(activeBuilds) + 1
                /\ Entries(activeBuilds') =
                      Entries(activeBuilds) \cup
                         {[chatId |-> c, startTime |-> now, lastActivity |-> now]}
                /\ \A k \in ChatIds \ {c} : SameSlot(activeBuilds, activeBuilds', k)
          /\ maxConcurrent' = maxConcurrent ]_vars

\* a slot granted after the clock has advanced, next to an older slot
C5_Witness ==
    /\ lastAcquire.ret
    /\ now > 0
    /\ MapHas(activeBuilds, lastAcquire.chatId)
    /\ MapGet(activeBuilds, lastAcquire.chatId).startTime = now
    /\ Len(activeBuilds) = 2

\* C6: a refused acquire(id) leaves the slots unchanged (same keys, same
\* startTime and lastActivity), and records nothing about the requester: a slot
\* for id only ever appears in a step that is a granted acquire(id).
C6_RefusalChangesNothing ==
    [][ /\ \A c \in ChatIds :
              (AcquireCall(c) /\ ~lastAcquire'.ret) => activeBuilds' = activeBuilds
        /\ \A c \in ChatIds :
              (~MapHas(activeBuilds, c) /\ MapHas(activeBuilds', c))
                 => (AcquireCall(c) /\ lastAcquire'.ret) ]_vars

\* a requester refused for lack of capacity is still without a slot after a
\* slot has been freed
C6_Witness ==
    /\ lastAcquire.chatId # null
    /\ ~lastAcquire.ret
    /\ ~MapHas(activeBuilds, lastAcquire.chatId)
    /\ released[lastAcquire.chatId] = "no"
    /\ Len(activeBuilds) < maxConcurrent
    /\ \E c \in ChatIds : released[c] = "release"

\* C7: release(id) changes nothing when id holds no slot; when id holds a slot
\* it removes exactly that slot and leaves every other slot unchanged; a second
\* release(id) has no further effect.
C7_ReleaseContract ==
    [][ \A c \in ChatIds : Release(c) =>
          /\ ~MapHas(activeBuilds, c) => activeBuilds' = activeBuilds
          /\ MapHas(activeBuilds, c) =>
                /\ ~MapHas(activeBuilds', c)
                /\ Len(activeBuilds') = Len(activeBuilds) - 1
                /\ \A k \in ChatIds \ {c} : SameSlot(activeBuilds, activeBuilds', k)
          /\ ReleaseMap(activeBuilds', c) = activeBuilds' ]_vars

\* release has removed the slot of a requester while another slot stays
C7_Witness ==
    \E c \in ChatIds :
        /\ released[c] = "release"
        /\ ~MapHas(activeBuilds, c)
        /\ Len(activeBuilds) >= 1

\* C8: after release(id) or forceRelease(id), the next acquire(id) returns
\* true whenever the number of slots is below capacity at that moment.
C8_AcquireAfterRelease ==
    [][ \A c \in ChatIds :
          (AcquireCall(c) /\ released[c] # "no" /\ Len(activeBuilds) < maxConcurrent)
             => lastAcquire'.ret ]_vars

\* an acquire granted right after a forceRelease of the same requester
C8_Witness ==
    /\ lastAcquire.ret
    /\ lastAcquire.after = "forceRelease"
    /\ MapHas(activeBuilds, lastAcquire.chatId)

\* C9: with capacity 2 and an empty queue, three acquire calls for three
\* distinct ids, nothing being released in between, grant the first two to
\* arrive and refuse the third, whatever the arrival order.
C9_TwoOfThreeGranted ==
    (/\ maxConcurrent = 2
     /\ Len(arrivals) >= 3
     /\ Cardinality({ arrivals[i].chatId : i \in 1..3 }) = 3)
    => (arrivals[1].ret /\ arrivals[2].ret /\ ~arrivals[3].ret)

\* three distinct requesters have arrived at a queue of capacity 2
C9_Witness ==
    /\ maxConcurrent = 2
    /\ Len(arrivals) = 3
    /\ Cardinality({ arrivals[i].chatId : i \in 1..3 }) = 3
    /\ Len(activeBuilds) = 2

\* C10: forceRelease(id), for every requester id, removes the slot of id if
\* present and leaves all other slots unchanged; forceRelease() without an id
\* removes all slots.
C10_ForceReleaseContract ==
    [][ /\ \A c \in ChatIds : ForceRelease(c) =>
              /\ ~MapHas(activeBuilds', c)
              /\ \A k \in ChatIds \ {c} : SameSlot(activeBuilds, activeBuilds', k)
        /\ ForceRelease(null) => activeBuilds' = << >> ]_vars

----------------------------------------------------------------------------
(* Properties of the front end *)

\* C2: every build admitted by a successful acquire in confirmBuild or
\* handleZipUpload has had release(requesterId) called by the time the handler
\* exits, whether the build succeeded (oversized artifact included), failed, or
\* reporting the result threw.
C2_ReleaseOnEveryExit ==
    \A p \in Invocations :
        (inv[p].pc = "done" /\ inv[p].admitted /\ inv[p].ended)
           => inv[p].releaseCalled

\* C3 as claimed: the number of admitted pipelines that have not finished is
\* at most the capacity, also after the watchdog has reclaimed slots.
C3_RunningWithinCapacity ==
    Cardinality({ p \in Invocations : Running(p) }) <= maxConcurrent

\* C3: the number of admitted pipelines that have not finished and whose own
\* slot is still in activeBuilds is at most the capacity.
C3_SlotOwnersWithinCapacity ==
    Cardinality({ p \in Invocations : Running(p) /\ OwnsSlot(p) }) <= maxConcurrent

\* the watchdog has reclaimed the slot of a running pipeline and a second
\* pipeline, admitted since, fills the queue
C3_Witness ==
    \E p, q \in Invocations :
        /\ p # q
        /\ Running(p) /\ ~OwnsSlot(p)
        /\ Running(q) /\ OwnsSlot(q)
        /\ Len(activeBuilds) = maxConcurrent

----------------------------------------------------------------------------
(* Properties of the activity timestamps and of the watchdog *)

\* the slots of m1 and m2 are the same but for their lastActivity
SameKeysAndStarts(m1, m2) ==
    /\ Len(m1) = Len(m2)
    /\ \A i \in 1..Len(m1) : /\ m1[i].chatId = m2[i].chatId
                             /\ m1[i].startTime = m2[i].startTime

\* C11: updateActivity(id) changes the lastActivity of the slot of id only
\* (sets it to now) and of no other slot, also when id holds no slot;
\* updateActivity() without an id sets the lastActivity of every slot to now;
\* neither form adds or removes a slot or changes a startTime.
C11_UpdateActivityContract ==
    [][ /\ \A c \in ChatIds : UpdateActivity(c) =>
              /\ SameKeysAndStarts(activeBuilds, activeBuilds')
              /\ MapHas(activeBuilds, c) => MapGet(activeBuilds', c).lastActivity = now
              /\ \A k \in ChatIds \ {c} : SameSlot(activeBuilds, activeBuilds', k)
        /\ UpdateActivity(null) =>
              /\ SameKeysAndStarts(activeBuilds, activeBuilds')
              /\ \A i \in 1..Len(activeBuilds') : activeBuilds'[i].lastActivity = now ]_vars

\* C12: every progress update pushed by an admitted build, URL or ZIP,
\* refreshes the lastActivity of that build's slot: while the pipeline runs
\* and its slot is in activeBuilds, the slot's lastActivity is not older than
\* the pipeline's latest onProgress call.
C12_ProgressRefreshesSlot ==
    \A p \in Invocations :
        (Running(p) /\ OwnsSlot(p))
           => MapGet(activeBuilds, inv[p].chat).lastActivity >= inv[p].progressAt

\* C13: a watchdog tick removes every slot whose now - startTime exceeds the
\* absolute timeout (45 min), also when its lastActivity was updated just
\* before the tick: updateActivity never postpones this reclamation.
C13_AbsoluteTimeoutReclaims ==
    [][ Tick =>
          \A i \in 1..Len(activeBuilds) :
              now - activeBuilds[i].startTime > MAX_BUILD_TIME
                 => ~MapHas(activeBuilds', activeBuilds[i].chatId) ]_vars

\* the last tick removed a slot older than the absolute timeout whose
\* lastActivity had been set at the very instant of the tick
C13_Witness ==
    \E e \in reclaimed :
        /\ now - e.startTime > MAX_BUILD_TIME
        /\ e.lastActivity = now
        /\ ~MapHas(activeBuilds, e.chatId)

\* C14: a watchdog tick removes every slot whose now - lastActivity exceeds
\* the inactivity timeout (10 min) while its now - startTime is still below
\* the absolute timeout.
C14_InactivityTimeoutReclaims ==
    [][ Tick =>
          \A i \in 1..Len(activeBuilds) :
              (/\ now - activeBuilds[i].lastActivity > INACTIVITY_TIMEOUT
               /\ now - activeBuilds[i].startTime < MAX_BUILD_TIME)
                 => ~MapHas(activeBuilds', activeBuilds[i].chatId) ]_vars

\* the last tick removed a slot younger than the absolute timeout whose
\* lastActivity, updated after the start, was older than the inactivity timeout
C14_Witness ==
    \E e \in reclaimed :
        /\ now - e.startTime < MAX_BUILD_TIME
        /\ now - e.lastActivity > INACTIVITY_TIMEOUT
        /\ e.lastActivity > e.startTime
        /\ ~MapHas(activeBuilds, e.chatId)

\* C15: for every successful acquire(id) exactly one of release(id), by the
\* caller, and forceRelease(id), by the watchdog, is called for the granted
\* slot, never neither and never both for the same admission: once the
\* admitted handler has exited and its slot is gone, one of the two has been
\* called and the other has not.
C15_ExactlyOneRelease ==
    \A p \in Invocations :
        (/\ inv[p].pc = "done"
         /\ inv[p].admitted
         /\ \A c \in Chats : holder[c] # p)
           => (inv[p].releaseCalled # forced[p])

\* C16: a watchdog reclamation changes only the slot map of the queue: the
\* handler invocations, their pipelines and supervised subprocesses, the
\* sessions and the capacity are exactly as they were, so a pipeline that was
\* running before the tick is still running after it.
C16_ReclamationLeavesPipelines ==
    [][ Reclaim =>
          /\ UNCHANGED <<inv, sessions, maxConcurrent, now, svars>>
          /\ \A p \in Invocations : Running(p) => Running(p)' ]_vars

\* the watchdog has removed the slot of a pipeline that is still running
C16_Witness ==
    \E p \in Invocations :
        /\ Running(p)
        /\ inv[p].progressAt = now
        /\ now > 0
        /\ ~MapHas(activeBuilds, inv[p].chat)

----------------------------------------------------------------------------
(* Properties of the configuration *)

\* the string without its sign, if it has one
Unsigned(v) == IF v # << >> /\ Head(v) \in { "+", "-" } THEN Tail(v) ELSE v

\* the configured value is an integer: an optional sign and digits, nothing else
IsIntegerNumeral(v) ==
    /\ Unsigned(v) # << >>
    /\ \A i \in 1..Len(Unsigned(v)) : IsDigit(Unsigned(v)[i])

NumeralValue(v) ==
    IF Head(v) = "-" THEN 0 - DecimalValue(Unsigned(v)) ELSE DecimalValue(Unsigned(v))

\* the configured value is not a number: it holds a character that no number holds
NonNumeric(v) ==
    \E i \in 1..Len(v) : ~IsDigit(v[i]) /\ v[i] \notin { "+", "-", ".", " " }

\* C17 as claimed: for every configured value the capacity lies in 1..4; it
\* is the configured value when that is an integer in 1..4, 4 when it is a
\* larger integer, and 1 when the value is missing, empty, not a number, zero
\* or negative.
C17_CapacityFromConfig ==
    maxConcurrent # null =>
        /\ maxConcurrent \in MinConcurrent..MaxConcurrent
        /\ (IsIntegerNumeral(env) /\ NumeralValue(env) \in 1..4)
              => maxConcurrent = NumeralValue(env)
        /\ (IsIntegerNumeral(env) /\ NumeralValue(env) > 4) => maxConcurrent = 4
        /\ (IsIntegerNumeral(env) /\ NumeralValue(env) <= 0) => maxConcurrent = 1
        /\ (env = undefined \/ env = << >> \/ NonNumeric(env)) => maxConcurrent = 1

\* v holds only spaces before position i, or spaces and then one sign
AfterSpacesAndSign(v, i) ==
    \/ \A k \in 1..(i - 1) : v[k] = " "
    \/ /\ i > 1
       /\ v[i - 1] \in { "+", "-" }
       /\ \A k \in 1..(i - 2) : v[k] = " "

IsNegative(v, i) == \E k \in 1..(i - 1) : v[k] = "-"

\* positions i..j of v hold digits of the radix and position j + 1 does not
DigitsAt(v, i, j, radix) ==
    /\ i <= j
    /\ \A k \in i..j : IsDigitOf(v[k], radix)
    /\ j < Len(v) => ~IsDigitOf(v[j + 1], radix)

HexPrefixAt(v, i) == i < Len(v) /\ v[i] = "0" /\ v[i + 1] \in { "x", "X" }

\* the integers n such that the string v, after leading spaces, starts with
\* a numeral of n: an optional sign, then decimal digits, or 0x and
\* hexadecimal digits, up to the first character that is not such a digit
LeadingIntegers(v) ==
    LET Positions == (1..Len(v)) \X (1..Len(v))
        Signed(i, n) == IF IsNegative(v, i) THEN 0 - n ELSE n
    IN  { Signed(ij[1], RadixValue(SubSeq(v, ij[1], ij[2]), 10)) :
            ij \in { x \in Positions : /\ AfterSpacesAndSign(v, x[1])
                                       /\ ~HexPrefixAt(v, x[1])
                                       /\ DigitsAt(v, x[1], x[2], 10) } }
        \cup
        { Signed(ij[1], RadixValue(SubSeq(v, ij[1], ij[2]), 16)) :
            ij \in { x \in Positions : /\ x[1] > 2
                                       /\ AfterSpacesAndSign(v, x[1] - 2)
                                       /\ HexPrefixAt(v, x[1] - 2)
                                       /\ DigitsAt(v, x[1], x[2], 16) } }

\* C17: for every configured value the capacity lies in 1..4; it is n when
\* the value starts, after optional spaces and sign, with the numeral of an
\* integer n in 1..4 (decimal digits, or 0x and hexadecimal digits), whatever
\* follows the numeral; it is 4 when that leading integer is larger than 4;
\* it is 1 when the variable is missing, when the value has no leading
\* integer, and when the leading integer is zero or negative.
C17_CapacityFromLeadingInteger ==
    maxConcurrent # null =>
        /\ maxConcurrent \in MinConcurrent..MaxConcurrent
        /\ \A n \in LeadingIntegers(env) :
              /\ n \in 1..4 => maxConcurrent = n
              /\ n > 4 => maxConcurrent = 4
              /\ n <= 0 => maxConcurrent = 1
        /\ LeadingIntegers(env) = { } => maxConcurrent = 1

\* a queue constructed with capacity 3 from a value that is not an integer:
\* digits followed by something else
C17_Witness ==
    /\ maxConcurrent = 3
    /\ env # undefined
    /\ Len(env) >= 2
    /\ ~IsIntegerNumeral(env)

----------------------------------------------------------------------------
(* Properties of the process supervisors *)

RECURSIVE StdoutOf(_)
\* the texts of the stdout chunks of a log of data events, in arrival order
StdoutOf(log) ==
    IF log = << >> THEN << >>
    ELSE IF Head(log).stream = "stdout" THEN Head(log).text \o StdoutOf(Tail(log))
    ELSE StdoutOf(Tail(log))

\* C18 (as stated): once the close event of a process that exited with code 0
\* has been handled, the step of runCommand is resolved, and its value is the
\* concatenation in arrival order of every stdout chunk received, without any
\* stderr content.
C18_ExitZeroResolvesStdout ==
    (proc.state = "closed" /\ proc.code = 0)
        => (promise.state = "resolved" /\ promise.value = StdoutOf(chunks))

\* C18 (amended): the close event of a process that exited with code 0
\* resolves a step of runCommand that is still pending with the concatenation
\* in arrival order of every stdout chunk received, without any stderr
\* content; a step that the inactivity poll has already rejected stays
\* rejected with its timeout error.
C18_ExitZeroResolvesPendingStep ==
    [][ (Close /\ proc.code = 0)
            => IF promise.state = "pending"
               THEN promise' = Resolved(StdoutOf(chunks), "none")
               ELSE promise = Rejected("Timeout") /\ promise' = promise ]_vars

\* C18: a process that wrote two different stdout chunks and a stderr chunk
\* has exited with code 0, and its step is resolved with the stdout text.
C18_Witness ==
    /\ proc.state = "closed"
    /\ proc.code = 0
    /\ promise.state = "resolved"
    /\ promise.value = StdoutOf(chunks)
    /\ stderr # << >>
    /\ \E i, j \in 1..Len(chunks) :
          /\ i < j
          /\ chunks[i].stream = "stdout"
          /\ chunks[j].stream = "stdout"
          /\ chunks[i].text # chunks[j].text

\* C19: in runGradle, a firing of the timeout poll that finds more than
\* TIMEOUT_MS elapsed since the spawn sends SIGKILL to the child if it still
\* runs, stops the poll and resolves the step with the timeout error, whatever
\* output the child has produced and however recently; and a step resolved
\* with the timeout error keeps that result, through the close event that
\* follows the kill and through any later output.
C19_AbsoluteTimeoutKills ==
    [][ /\ (/\ GradleTimeoutCheck
            /\ proc.state \in { "running", "exited" }
            /\ now - buildStartTime > TIMEOUT_MS)
               => /\ proc.state = "running" => proc'.signal = "SIGKILL"
                  /\ promise' = Resolved(<< >>, "Timeout")
                  /\ timeoutCheck' = "off"
        /\ promise.error = "Timeout" => promise' = promise
        /\ buildStartTime' = buildStartTime ]_vars

\* C19: a child that was still writing output after its absolute timeout had
\* passed has been killed with SIGKILL, its close event has been handled, and
\* the step is resolved with the timeout error.
C19_Witness ==
    /\ promise = Resolved(<< >>, "Timeout")
    /\ proc = [state |-> "closed", code |-> null, signal |-> "SIGKILL"]
    /\ timeoutCheck = "off"
    /\ \E i \in 1..Len(chunks) : chunks[i].at - buildStartTime > TIMEOUT_MS

\* C20: in runCommand, a firing of the poll that finds the child running and
\* more than TIMEOUT_MS passed since its last stdout or stderr chunk
\* force-kills the child (SIGKILL, the signal that cannot be handled) and
\* rejects the step with the timeout error; every stdout or stderr chunk
\* restarts the window; and a firing of the poll that finds no more than
\* TIMEOUT_MS passed since the last chunk neither signals the child nor
\* settles the step.
C20_InactivityTimeoutKills ==
    [][ /\ (/\ TimeoutCheck
            /\ proc.state = "running"
            /\ now - lastOutputTime > TIMEOUT_MS)
               => /\ proc'.signal = "SIGKILL"
                  /\ promise' = Rejected("Timeout")
        /\ chunks' # chunks => lastOutputTime' = now
        /\ (TimeoutCheck /\ now - lastOutputTime <= TIMEOUT_MS)
               => UNCHANGED <<proc, promise>> ]_vars

\* a step has settled while its timer runs
TimerOutlivesStep == promise.state # "pending" /\ timeoutCheck = "on"

\* C21: for both supervisors, once the end of the process has been handled
\* (the close event after an exit with code 0, after a non-zero exit or after
\* the kill of a timeout) the interval timer is cleared, and a cleared timer
\* is never started again, so the poll does not fire; a step that has settled
\* holds a running timer only between the error event of a failed spawn and
\* the close event that follows it.
C21_TimerCleared ==
    [][ /\ proc'.state = "closed" => timeoutCheck' = "off"
        /\ timeoutCheck = "off" => (timeoutCheck' = "off" /\ ~ TimeoutCheck /\ ~ GradleTimeoutCheck)
        /\ TimerOutlivesStep' => proc'.state = "errored" ]_vars

\* C21: a process that failed with a non-zero exit code has been closed, the
\* timer is cleared, and the time of an inactivity and of an absolute
\* timeout has since passed without a timeout being reported.
C21_Witness ==
    /\ proc = [state |-> "closed", code |-> 1, signal |-> "none"]
    /\ timeoutCheck = "off"
    /\ promise.error = "BuildFailed"
    /\ now - lastOutputTime > TIMEOUT_MS
    /\ now - buildStartTime > TIMEOUT_MS

\* C22: for both supervisors, in the step that settles the promise (resolve
\* or reject, whatever the result) the child process is not running any
\* more: it has terminated, it was never spawned, or it has been sent the
\* signal that it cannot survive.
C22_NoProcessOutlivesStep ==
    [][ (promise.state = "pending" /\ promise'.state # "pending")
            => (proc'.state # "running" \/ proc'.signal = "SIGKILL") ]_vars

----------------------------------------------------------------------------
(* Properties of the error message of runCommand *)

\* the text has a line equal to the given line
HasLine(text, line) ==
    \E k \in 1..Len(SplitAt(text, LineTerminators)) : SplitAt(text, LineTerminators)[k] = line

\* the message of a rejection without the pointer at its end
ExtractedText(message) == SubSeq(message, 1, Len(message) - Len(DebugLogPointer))

\* the message ends with the complete pointer
EndsWithPointer(message) ==
    /\ Len(message) >= Len(DebugLogPointer)
    /\ SubSeq(message, Len(message) - Len(DebugLogPointer) + 1, Len(message)) = DebugLogPointer

\* the close listener has rejected the step of a failed run
RejectedByClose == promise.state = "rejected" /\ promise.error = "BuildFailed"

\* C23 (as stated): whenever runCommand rejects a run with a non-zero exit
\* code whose stdout has the line "error: cannot find symbol", the message of
\* the rejection contains that line verbatim, whatever else the output
\* contains.
C23_ContainsCannotFindSymbol ==
    (RejectedByClose /\ HasLine(stdout, CannotFindSymbol))
        => Includes(promise.value, CannotFindSymbol)

\* C23 (amended): whenever runCommand rejects a run with a non-zero exit code
\* whose stdout has the line "error: cannot find symbol", and the distinct
\* matches of the error patterns in the output are at most 10 and, joined by
\* newlines, at most 1500 characters long, the message of the rejection
\* contains that line verbatim.
C23_ContainsCannotFindSymbolWithinLimits ==
    (/\ RejectedByClose
     /\ HasLine(stdout, CannotFindSymbol)
     /\ Len(Distinct(ErrorLines(AllOutput(stdout, stderr)))) <= MAX_ERROR_LINES
     /\ Len(Join(Distinct(ErrorLines(AllOutput(stdout, stderr))), << "\n" >>)) <= MAX_ERROR_LENGTH)
        => Includes(promise.value, CannotFindSymbol)

\* C23: a run has been rejected whose stdout has the line "error: cannot find
\* symbol" after eight other lines that match a pattern, whose stderr is not
\* empty, and whose message contains the line.
C23_Witness ==
    /\ RejectedByClose
    /\ HasLine(stdout, CannotFindSymbol)
    /\ HasLine(stdout, FailureLine(8))
    /\ stderr # << >>
    /\ Includes(promise.value, CannotFindSymbol)

\* the needles of the error patterns, each with its i flag
PatternNeedles ==
    { << FAILURE_, FALSE >>, << error_, TRUE >>, << Error_, FALSE >>,
      << Exception_, FALSE >>, << WhatWentWrong_, FALSE >>, << could_not, TRUE >>,
      << cannot_, TRUE >>, << failed_, TRUE >>, << not_found, TRUE >> }

\* no error pattern matches anywhere in the text
NoPatternMatches(text) ==
    \A p \in PatternNeedles : Occurrences(text, 1, p[1], p[2]) = { }

\* the positions, among the lines of the text, of its last n non-blank lines
LastNonBlank(text, n) ==
    LET lines == SplitAt(text, { "\n" })
        nonBlank == { k \in 1..Len(lines) : \E i \in 1..Len(lines[k]) : lines[k][i] \notin WhiteSpace }
    IN  { k \in nonBlank : Cardinality({ j \in nonBlank : j > k }) < n }

\* the last n non-blank lines of the text joined by newlines
LastLinesJoined(text, n) ==
    LET lines == SplitAt(text, { "\n" })
        at == Ascending(LastNonBlank(text, n))
    IN  Join([k \in 1..Len(at) |-> lines[at[k]]], << "\n" >>)

\* C24 (as stated): whenever runCommand rejects a failed run in whose output
\* no error pattern matches, the extracted text of the message is the last 20
\* non-blank lines of stdout, a newline and stderr, joined by newlines and cut
\* to 1500 characters.
C24_FallbackIsLastLines ==
    (RejectedByClose /\ NoPatternMatches(AllOutput(stdout, stderr)))
        => ExtractedText(promise.value)
              = Substring(LastLinesJoined(AllOutput(stdout, stderr), FALLBACK_LINES), MAX_ERROR_LENGTH)

\* C24 (amended): whenever runCommand rejects a failed run in whose output no
\* error pattern matches, the extracted text of the message is the last 20
\* non-blank lines of stdout, a newline and stderr, joined by newlines and cut
\* to 1500 characters, if the output has a non-blank line; otherwise it is
\* "Build failed with code " followed by the exit code.
C24_FallbackIsLastLinesOrDefault ==
    (RejectedByClose /\ NoPatternMatches(AllOutput(stdout, stderr)))
        => ExtractedText(promise.value)
              = IF LastNonBlank(AllOutput(stdout, stderr), 1) # { }
                THEN Substring(LastLinesJoined(AllOutput(stdout, stderr), FALLBACK_LINES),
                               MAX_ERROR_LENGTH)
                ELSE BuildFailedWithCode_ \o CodeText(proc.code)

\* C24: a run has been rejected in whose output no pattern matches and which
\* has more than 20 non-blank lines, the last of them written to stderr.
C24_Witness ==
    /\ RejectedByClose
    /\ NoPatternMatches(AllOutput(stdout, stderr))
    /\ Len(NonBlank(Split(stdout))) > FALLBACK_LINES
    /\ stderr # << >>
    /\ Len(ExtractedText(promise.value)) > 0

\* C25 (as stated): whenever a run of runCommand has ended with a non-zero
\* exit code, the error that the caller has received is at most 1500
\* characters of extracted text followed by the complete pointer to the error
\* log.
C25_MessageBoundedWithPointer ==
    (proc.state = "closed" /\ proc.code \notin { 0, 0 - 2 })
        => /\ promise.state = "rejected"
           /\ EndsWithPointer(promise.value)
           /\ Len(ExtractedText(promise.value)) <= MAX_ERROR_LENGTH

\* C25 (amended): whenever a run of runCommand has ended with a non-zero exit
\* code, the caller has received either the error of the close listener,
\* which is at most 1500 characters of extracted text, the first 1500 of the
\* text or all of it, followed by the complete pointer to the error log, or,
\* if the inactivity poll rejected the step before the close event, the
\* timeout error, which has no pointer.
C25_CloseMessageBoundedWithPointer ==
    (proc.state = "closed" /\ proc.code \notin { 0, 0 - 2 })
        => \/ /\ RejectedByClose
              /\ EndsWithPointer(promise.value)
              /\ Len(ExtractedText(promise.value)) <= MAX_ERROR_LENGTH
              /\ ExtractedText(promise.value)
                    = Substring(ErrorText(AllOutput(stdout, stderr), proc.code), MAX_ERROR_LENGTH)
           \/ promise = Rejected("Timeout")

\* C25: a run has been rejected whose extracted text was longer than 1500
\* characters; the message is 1500 characters and the pointer.
C25_Witness ==
    /\ RejectedByClose
    /\ Len(ErrorText(AllOutput(stdout, stderr), proc.code)) > MAX_ERROR_LENGTH
    /\ Len(promise.value) = MAX_ERROR_LENGTH + Len(DebugLogPointer)
    /\ EndsWithPointer(promise.value)

----------------------------------------------------------------------------
(* Properties of the output callback of runCommand *)

\* the data event that a step delivers, if it delivers one
Delivered == chunks'[Len(chunks')]

\* C26: in every stderr data event of a runCommand that has a callback, the
\* chunk is given to the callback exactly when it contains "error" or
\* "exception" in any spelling of upper and lower case.
C26_StderrForwardedIgnoringCase ==
    [][ (/\ Len(chunks') = Len(chunks) + 1
         /\ Delivered.stream = "stderr"
         /\ onOutput.supplied)
            => ((Len(onOutput'.calls) = Len(onOutput.calls) + 1)
                   <=> \/ Occurrences(Delivered.text, 1, << "e", "r", "r", "o", "r" >>, TRUE) # { }
                       \/ Occurrences(Delivered.text, 1, << "e", "x", "c", "e", "p", "t", "i", "o", "n" >>, TRUE) # { }) ]_vars

----------------------------------------------------------------------------
(* Properties of the launch of the command *)

\* C27: for both supervisors, when a step settles because the command could
\* not be launched (the spawn failed, or the shell ended with the exit code
\* for a command not found or not executable), its result is the spawn
\* failure and not the failure of a build tool.
C27_LaunchFailureDistinct ==
    [][ (/\ promise.state = "pending"
         /\ promise'.state # "pending"
         /\ proc.state = "failed" \/ proc.code \in LaunchFailureCodes)
            => promise'.error = "SpawnFailed" ]_vars

\* the subprocesses of the build that are running: the child of the step that
\* is under way and the children that earlier steps have left behind
LiveSubprocesses == orphans + (IF Alive(proc) THEN 1 ELSE 0)

\* C28: within one build the steps run strictly one after another: no step is
\* spawned while the child of an earlier step of the build is still running, so
\* the build owns at most one live subprocess at any time.
C28_OneLiveSubprocess == LiveSubprocesses <= 1

\* the pipeline moves on from the supervised step it awaits, whose promise has rejected
LeavesFailedStep(steps) ==
    /\ job.pc \in steps
    /\ promise.state = "rejected"
    /\ job'.pc # job.pc

\* the pipeline starts no step and hands the error to the catch of buildFromZip
Aborts == started' = started /\ job'.pc = "catch"

\* the catch of buildFromZip starts no step and returns a failure result
CatchReturnsFailure ==
    (job.pc = "catch" /\ job'.pc # job.pc) => (started' = started /\ job'.result = "failure")

\* C29 (as stated): if any step of a pipeline fails, the cache-cleanup command
\* and flutter clean of the Flutter pipeline included, no later step of the
\* pipeline is started and the pipeline returns a failure result.
C29_StepFailureAborts ==
    [][ /\ LeavesFailedStep({ "rm", "flutter clean", "flutter pub get", "flutter build apk", "gradle" })
           => Aborts
        /\ CatchReturnsFailure ]_vars

\* C29 (amended): if flutter pub get, flutter build apk or the Gradle build
\* fails, no later step of the pipeline is started and the pipeline returns a
\* failure result; a failure of the cache-cleanup command or of flutter clean
\* is ignored, and the pipeline starts the step that follows it.
C29_StepFailureAbortsUnlessIgnored ==
    [][ /\ LeavesFailedStep({ "flutter pub get", "flutter build apk", "gradle" }) => Aborts
        /\ LeavesFailedStep({ "rm" }) => started' = Append(started, "flutter clean")
        /\ LeavesFailedStep({ "flutter clean" }) => started' = Append(started, "flutter pub get")
        /\ CatchReturnsFailure ]_vars

\* flutter pub get has failed after the two steps before it, the build was
\* never started, and the handler has finished with the failure result
C29_Witness ==
    /\ Finished
    /\ job.result = "failure"
    /\ job.error \in { "BuildFailed", "Timeout", "SpawnFailed" }
    /\ started = << "rm", "flutter clean", "flutter pub get" >>

\* fs.remove has been called on the path, whether or not it succeeded
RemovalAttempted(file) == file \in { "removed", "removal failed" }

\* C30: whatever the outcome of a build (success, step failure, artifact not
\* found, or a failure while delivering the artifact), removal of the build's
\* working directory and of the uploaded archive has been attempted by the
\* time the front-end handler finishes, and a failure of that cleanup never
\* replaces the original error: the error reported is the one that was thrown.
C30_CleanupAlwaysAttempted ==
    Finished =>
        /\ RemovalAttempted(job.tempDir)
        /\ RemovalAttempted(job.zipPath)
        /\ (job.pc = "returned" /\ job.error # "none") => job.reported = job.error

\* the runCommand calls of the builds, each as the build and the position of the call
RunCommandCalls == UNION { { << b, i >> : i \in 1..Len(names[b].logFiles) } : b \in 1..Len(names) }

\* the builds that have chosen the path of their output artifact
BuildsWithOutput == { b \in 1..Len(names) : names[b].finalPath # << >> }

\* C31: no two builds, and no two runCommand calls, ever use the same working
\* directory, the same log file or the same output artifact path, even when
\* they start or finish at the same clock millisecond.
C31_PathsExclusive ==
    /\ \A b, c \in 1..Len(names) : b # c => names[b].tempDir # names[c].tempDir
    /\ \A x, y \in RunCommandCalls :
           x # y => names[x[1]].logFiles[x[2]] # names[y[1]].logFiles[y[2]]
    /\ \A b, c \in BuildsWithOutput : b # c => names[b].finalPath # names[c].finalPath

\* the paths of the files of the tree whose names end in .apk
ApkFiles(tree) ==
    UNION { { Append(dir, tree[dir][i].name) :
                i \in { j \in 1..Len(tree[dir]) :
                          tree[dir][j].stat = "file" /\ EndsWith(tree[dir][j].name, DotApk_) } } :
            dir \in DOMAIN tree }

\* the number of directories between the directory searched and the file
DepthOf(path) == Len(path) - 1

\* no directory on the way to the file is excluded from the search
ThroughSearchedDirectories(path) ==
    \A j \in 1..DepthOf(path) : ~StartsWith(path[j], Dot_) /\ path[j] # NodeModules_

\* in the directories on the way to the file, fs.stat succeeds on every entry
\* listed before the one that leads to the file
Unobstructed(tree, path) ==
    \A j \in 1..Len(path) :
        LET items == tree[SubSeq(path, 1, j - 1)]
        IN  \A i \in 1..Len(items) :
                (\E h \in i..Len(items) : items[h].name = path[j]) => items[i].stat # "throws"

\* the recursive search has run: none of possiblePaths exists
FallbackSearched ==
    /\ apkPath # Unsearched
    /\ \A i \in 1..Len(PossiblePaths(projectDir.buildType)) :
           ~PathExists(projectDir.files, PossiblePaths(projectDir.buildType)[i])

HoldsApk(tree, dir) == dir \in DOMAIN tree /\ ApkAt(tree[dir]) # { }

\* C33: after a successful compile step of the URL pipeline, artifact location
\* returns the release artifact if one exists, otherwise the debug artifact if
\* one exists; it reports artifact-not-found only when neither output location
\* contains an .apk.
C33_ReleaseThenDebug ==
    apkPath # Unsearched =>
        /\ HoldsApk(projectDir.files, ReleaseDir)
           => (apkPath.state = "found" /\ SubSeq(apkPath.path, 1, 5) = ReleaseDir)
        /\ (~HoldsApk(projectDir.files, ReleaseDir) /\ HoldsApk(projectDir.files, DebugDir))
           => (apkPath.state = "found" /\ SubSeq(apkPath.path, 1, 5) = DebugDir)
        /\ apkPath.state = "null"
           => (~HoldsApk(projectDir.files, ReleaseDir) /\ ~HoldsApk(projectDir.files, DebugDir))

\* invocation p calls buildQueue.release in this step
CallsRelease(p) == ~inv[p].releaseCalled /\ inv'[p].releaseCalled

\* C34: a release(id) issued by a build whose slot the watchdog has already
\* reclaimed never removes a slot that belongs to a later build admitted for
\* the same requester: each release removes only the slot created by the
\* acquire of the build that calls it.
C34_ReleaseRemovesOwnSlot ==
    [][ \A p \in Invocations, c \in Chats :
            (CallsRelease(p) /\ MapHas(activeBuilds, c) /\ ~MapHas(activeBuilds', c))
               => holder[c] = p ]_vars

\* the time for which the running build of invocation p has emitted no progress event
OwnInactivity(p) == now - inv[p].progressAt

\* C35: a build that emits no progress events has its slot reclaimed by the
\* first watchdog tick after its own inactivity exceeds the inactivity
\* timeout, regardless of the progress events of other builds that run at the
\* same time: in every state in which a running build has been silent for
\* longer than the timeout, checkStuckBuilds called now removes its slot.
C35_SilentBuildReclaimed ==
    \A p \in Invocations :
        (Running(p) /\ OwnsSlot(p) /\ OwnInactivity(p) > INACTIVITY_TIMEOUT)
           => ~MapHas(CheckStuckBuildsMap(activeBuilds, now), inv[p].chat)

\* the slot is within the absolute and the inactivity budget at the instant t
WithinBudgets(build, t) ==
    /\ t - build.startTime <= MAX_BUILD_TIME
    /\ t - build.lastActivity <= INACTIVITY_TIMEOUT

\* C36: a watchdog tick removes a slot only if its now - startTime is strictly
\* greater than the absolute timeout or its now - lastActivity is strictly
\* greater than the inactivity timeout; every slot within both budgets keeps
\* its key, startTime and lastActivity unchanged across the tick.
C36_TickRemovesOnlyStuck ==
    [][ Tick =>
          \A i \in 1..Len(activeBuilds) :
              /\ ~MapHas(activeBuilds', activeBuilds[i].chatId)
                 => ~WithinBudgets(activeBuilds[i], now)
              /\ WithinBudgets(activeBuilds[i], now)
                 => /\ MapHas(activeBuilds', activeBuilds[i].chatId)
                    /\ MapGet(activeBuilds', activeBuilds[i].chatId) = activeBuilds[i] ]_vars

\* buildFromZip has returned { success, ... } to handleZipUpload
Returned == job.result # "none"

\* C37: after the pipeline has returned its result to the caller, its onProgress
\* callback is never invoked again: the keep-alive timer is not running any
\* more, and no output of a subprocess reaches the callback.
C37_NoProgressAfterReturn ==
    /\ [](Returned => job.keepAliveInterval # "on")
    /\ [][Returned => onOutput'.calls = onOutput.calls]_vars

\* C38: every supervised step of the ZIP pipeline eventually settles (success,
\* failure or timeout) provided the timeout poll keeps firing: no behaviour of
\* the child, not even one that keeps writing without ever exiting, keeps the
\* promise of runCommand pending for ever.
C38_StepEventuallySettles == <>Settled

\* the invocation was granted a slot and its handler has not returned yet
InFlight(q) == inv[q].admitted /\ inv[q].pc \notin { "idle", "done" }

\* C39: when confirmBuild is refused because the same requester already has a
\* build in flight, the refused request leaves the session entry of that build
\* (and with it the icon the entry points to) in place.
C39_RefusalLeavesBuildInFlight ==
    [][ \A p \in Invocations :
          ( /\ \E throws \in BOOLEAN : BusyReported(p, throws)
            /\ inv[p].kind = "url"
            /\ \E q \in Invocations \ { p } : InFlight(q) /\ inv[q].chat = inv[p].chat )
          => sessions'[inv[p].chat] = sessions[inv[p].chat] ]_vars

\* the session of the chat is at the step 'confirm' of the URL flow with a
\* validated url and appName
ReadyToBuild(c) ==
    /\ sessions[c] = "confirm"
    /\ sessionData[c].url
    /\ sessionData[c].appName

\* C40: confirmBuild admits a URL build (and then calls buildApk with
\* session.data) only for a session that is at the step 'confirm' and holds a
\* url and an appName, whatever buttons were pressed and messages sent before.
C40_BuildOnlyWhenConfirmed ==
    [][ \A p \in Invocations, c \in Chats :
          (ConfirmBuild(p, c) /\ inv'[p].admitted) => ReadyToBuild(c) ]_vars
====
